---- MODULE Spec2Model ----
(***************************************************************************)
(* A model of the vita49 packet codec: the packet header word, the Vrt     *)
(* prologue (stream id, class id, timestamps), the Command payload with    *)
(* its Control/Ack Mode word and controllee / controller identifiers, and  *)
(* the serializer / parser pair.                                           *)
(*                                                                         *)
(* Representation.  A 32-bit word is a pair <<hi, lo>> of 16-bit halves    *)
(* (the header is stored that way by the code: hword_1, packet_size).      *)
(* An Option<T> is a sequence of length at most one: <<>> is None and      *)
(* <<v>> is Some(v).  A u64 is two words, a u128 four words.               *)
(***************************************************************************)
EXTENDS Integers, Sequences, FiniteSets, TLC

VARIABLES
    hword_1,               \* PacketHeader.hword_1 (u16)
    packet_size,           \* PacketHeader.packet_size (u16)
    stream_id,             \* Vrt.stream_id: Option<u32>
    class_id,              \* Vrt.class_id: Option<ClassIdentifier>
    integer_timestamp,     \* Vrt.integer_timestamp: Option<u32>
    fractional_timestamp,  \* Vrt.fractional_timestamp: Option<u64>
    payload,               \* Vrt.payload: SignalData / Context / Command
    trailer,               \* Vrt.trailer: Option<Trailer>
    last,                  \* the last call made and what it returned
    calls                  \* the number of calls made, where a run bounds it

vars == <<hword_1, packet_size, stream_id, class_id, integer_timestamp,
          fractional_timestamp, payload, trailer, last, calls>>

---------------------------------------------------------------------------
(* Options *)

None == <<>>

Some(v) == <<v>>

IsSome(o) == o /= <<>>

IsNone(o) == o = <<>>

---------------------------------------------------------------------------
(* Bits of a 16-bit half word and of a 32-bit word <<hi, lo>> *)

HalfBits == 16

HalfMod == 2^HalfBits

BitIsSet16(x, b) == (x \div 2^b) % 2 = 1

SetBit16(x, b) == IF BitIsSet16(x, b) THEN x ELSE x + 2^b

UnsetBit16(x, b) == IF BitIsSet16(x, b) THEN x - 2^b ELSE x

\* bits [shift, shift + width) of x
GetBits16(x, shift, width) == (x \div 2^shift) % 2^width

\* (x & !(mask << shift)) | (v << shift), mask = 2^width - 1, v < 2^width
PutBits16(x, shift, width, v) ==
    x - GetBits16(x, shift, width) * 2^shift + v * 2^shift

\* x | (v << shift) for a single bit v
OrBit16(x, shift, v) == IF v THEN SetBit16(x, shift) ELSE x

Word(hi, lo) == <<hi, lo>>

ZeroWord == Word(0, 0)

WordBitIsSet(w, b) ==
    IF b >= HalfBits THEN BitIsSet16(w[1], b - HalfBits) ELSE BitIsSet16(w[2], b)

WordSetBit(w, b) ==
    IF b >= HalfBits THEN Word(SetBit16(w[1], b - HalfBits), w[2])
                     ELSE Word(w[1], SetBit16(w[2], b))

WordUnsetBit(w, b) ==
    IF b >= HalfBits THEN Word(UnsetBit16(w[1], b - HalfBits), w[2])
                     ELSE Word(w[1], UnsetBit16(w[2], b))

---------------------------------------------------------------------------
(* PacketType, Tsi, Tsf: the enumerations' wire values *)

SignalDataWithoutStreamId == 0

SignalData == 1

ExtensionDataWithoutStreamId == 2

ExtensionData == 3

Context == 4

ExtensionContext == 5

Command == 6

ExtensionCommand == 7

TsiNull == 0

TsiUtc == 1

TsiGps == 2

TsiOther == 3

TsfNull == 0

TsfSampleCount == 1

TsfRealTimePs == 2

TsfFreeRunningCount == 3

TsiKinds == {TsiNull, TsiUtc, TsiGps, TsiOther}

TsfKinds == {TsfNull, TsfSampleCount, TsfRealTimePs, TsfFreeRunningCount}

---------------------------------------------------------------------------
(* PacketHeader: accessors over hword_1 (h) *)

packet_type(h) == GetBits16(h, 12, 4)

\* TryFrom<u8> for PacketType: Ok for the eight packet types, Err(()) for
\* every other value
packet_type_try_from(v) ==
    IF v \in {SignalDataWithoutStreamId, SignalData,
              ExtensionDataWithoutStreamId, ExtensionData,
              Context, ExtensionContext, Command, ExtensionCommand}
    THEN Some(v) ELSE None

\* packet_type() unwraps the conversion: it panics where there is no value
packet_type_panics(h) == IsNone(packet_type_try_from(GetBits16(h, 12, 4)))

set_packet_type(h, t) == PutBits16(h, 12, 4, t)

\* the eight packet types
PacketTypes ==
    {SignalDataWithoutStreamId, SignalData, ExtensionDataWithoutStreamId,
     ExtensionData, Context, ExtensionContext, Command, ExtensionCommand}

\* PacketType::has_signal_data_payload(), has_context_payload() and
\* has_command_payload() of the packet type t: each is !matches!(..)
has_signal_data_payload(t) ==
    ~(t \in {SignalData, ExtensionData, SignalDataWithoutStreamId,
             ExtensionDataWithoutStreamId})

has_context_payload(t) == ~(t \in {Context, ExtensionContext})

has_command_payload(t) == ~(t \in {Command, ExtensionCommand})

class_id_included(h) == BitIsSet16(h, 11)

set_class_id_included(h, included) ==
    IF included THEN SetBit16(h, 11) ELSE UnsetBit16(h, 11)

has_signal_family(h) ==
    packet_type(h) \in {SignalData, SignalDataWithoutStreamId,
                        ExtensionData, ExtensionDataWithoutStreamId}

has_context_family(h) == packet_type(h) \in {Context, ExtensionContext}

\* indicators(): the three bits read as the packet type's family
indicators(h) ==
    LET i1 == BitIsSet16(h, 10)
        i2 == BitIsSet16(h, 9)
        i3 == BitIsSet16(h, 8)
    IN  IF has_signal_family(h)
        THEN [family |-> "SignalData", trailer_included |-> i1,
              not_a_vita490_packet |-> i2, signal_spectral_data |-> i3]
        ELSE IF has_context_family(h)
        THEN [family |-> "Context", not_a_vita490_packet |-> i2,
              timestamp_mode |-> i3]
        ELSE [family |-> "Command", ack_packet |-> i1,
              cancellation_packet |-> i3]

\* set_indicators(): each given bit is OR-ed into hword_1
set_indicators(h, i) ==
    IF i.family = "SignalData"
    THEN OrBit16(OrBit16(OrBit16(h, 10, i.trailer_included),
                         9, i.not_a_vita490_packet),
                 8, i.signal_spectral_data)
    ELSE IF i.family = "Context"
    THEN OrBit16(OrBit16(h, 9, i.not_a_vita490_packet), 8, i.timestamp_mode)
    ELSE OrBit16(OrBit16(h, 10, i.ack_packet), 8, i.cancellation_packet)

tsi(h) == GetBits16(h, 6, 2)

set_tsi(h, t) == PutBits16(h, 6, 2, t)

tsf(h) == GetBits16(h, 4, 2)

set_tsf(h, t) == PutBits16(h, 4, 2, t)

stream_id_included(h) ==
    packet_type(h) \notin {SignalDataWithoutStreamId, ExtensionDataWithoutStreamId}

integer_timestamp_included(h) == tsi(h) /= TsiNull

fractional_timestamp_included(h) == tsf(h) /= TsfNull

trailer_included(h) ==
    LET i == indicators(h)
    IN  IF i.family = "SignalData" THEN i.trailer_included ELSE FALSE

\* payload_size_words(): usize arithmetic, so a subtraction below zero is a
\* panic (debug) or a wrap (release); modelled as the signed difference
payload_size_words(h, size) ==
    size - 1
    - (IF stream_id_included(h) THEN 1 ELSE 0)
    - (IF class_id_included(h) THEN 2 ELSE 0)
    - (IF integer_timestamp_included(h) THEN 1 ELSE 0)
    - (IF fractional_timestamp_included(h) THEN 2 ELSE 0)
    - (IF trailer_included(h) THEN 1 ELSE 0)

\* the words a header announces before and after the payload
prologue_words(h) ==
    1
    + (IF stream_id_included(h) THEN 1 ELSE 0)
    + (IF class_id_included(h) THEN 2 ELSE 0)
    + (IF integer_timestamp_included(h) THEN 1 ELSE 0)
    + (IF fractional_timestamp_included(h) THEN 2 ELSE 0)
    + (IF trailer_included(h) THEN 1 ELSE 0)

\* payload_size_words() as a call: the subtractions are on usize, so where
\* one goes below zero the call panics (overflow checks on) or returns the
\* difference wrapped modulo 2^64 (overflow checks off), whose val here is
\* the difference before the wrap
payload_size_words_call(h, size) ==
    IF payload_size_words(h, size) >= 0
    THEN {<<"Ok", payload_size_words(h, size)>>}
    ELSE {<<"panic", 0>>, <<"wrapped", payload_size_words(h, size)>>}

new_signal_data_header ==
    set_indicators(set_packet_type(0, SignalData),
        [family |-> "SignalData", trailer_included |-> FALSE,
         not_a_vita490_packet |-> FALSE, signal_spectral_data |-> FALSE])

\* TimestampMode::GeneralTiming is 1
new_context_header ==
    set_indicators(set_packet_type(0, Context),
        [family |-> "Context", not_a_vita490_packet |-> FALSE,
         timestamp_mode |-> TRUE])

new_control_header ==
    set_indicators(set_packet_type(0, Command),
        [family |-> "Command", ack_packet |-> FALSE, cancellation_packet |-> FALSE])

new_cancellation_header ==
    set_indicators(set_packet_type(0, Command),
        [family |-> "Command", ack_packet |-> FALSE, cancellation_packet |-> TRUE])

new_ack_header ==
    set_indicators(set_packet_type(0, Command),
        [family |-> "Command", ack_packet |-> TRUE, cancellation_packet |-> FALSE])

---------------------------------------------------------------------------
(* ControlAckMode: the CAM word *)

controllee_enabled(cam) == WordBitIsSet(cam, 31)

enable_controllee(cam) == WordSetBit(cam, 31)

disable_controllee(cam) == WordUnsetBit(cam, 31)

controllee_id_format(cam) ==
    IF WordBitIsSet(cam, 30) THEN "Uuid128bit" ELSE "Id32bit"

set_controllee_id_format(cam, format) ==
    IF format = "Id32bit" THEN WordUnsetBit(cam, 30) ELSE WordSetBit(cam, 30)

controller_enabled(cam) == WordBitIsSet(cam, 29)

enable_controller(cam) == WordSetBit(cam, 29)

disable_controller(cam) == WordUnsetBit(cam, 29)

controller_id_format(cam) ==
    IF WordBitIsSet(cam, 28) THEN "Uuid128bit" ELSE "Id32bit"

set_controller_id_format(cam, format) ==
    IF format = "Id32bit" THEN WordUnsetBit(cam, 28) ELSE WordSetBit(cam, 28)

\* the CAM flags a caller toggles on a copy before set_cam()
CamExecutionBit == 19

CamErrorBit == 16

CamFlagBits == {CamExecutionBit, CamErrorBit}

\* the four identifier bits of the CAM
CamIdBits == {31, 30, 29, 28}

AllWordBits == 0 .. 31

---------------------------------------------------------------------------
(* CIF indicator words and their data fields.  CIF0 is modelled with two   *)
(* data fields (bandwidth, bit 29; rf_ref_freq, bit 27) and its four       *)
(* enable bits; CIF1, CIF2 and CIF3 with every field they declare.         *)

Cif0BandwidthBit == 29

Cif0RfRefFreqBit == 27

\* CIF0: the bit that announces CIF7, the field attributes
Cif0FieldAttributesBit == 1

\* CIF0: the bits that announce CIF1, CIF2 and CIF3
CifEnabledBit == <<4, 3, 2>>

cif0_bandwidth(cif0) == WordBitIsSet(cif0, Cif0BandwidthBit)

cif0_set_bandwidth(cif0) == WordSetBit(cif0, Cif0BandwidthBit)

cif0_unset_bandwidth(cif0) == WordUnsetBit(cif0, Cif0BandwidthBit)

field_attributes_enabled(cif0) == WordBitIsSet(cif0, Cif0FieldAttributesBit)

set_field_attributes_enabled(cif0) == WordSetBit(cif0, Cif0FieldAttributesBit)

\* cif1_enabled(), cif2_enabled(), cif3_enabled()
cif_enabled(cif0, n) == WordBitIsSet(cif0, CifEnabledBit[n])

Cif0Bits == [bandwidth |-> Cif0BandwidthBit, rf_ref_freq |-> Cif0RfRefFreqBit]

\* Cif0Fields: the modelled fields in declaration order, each with the
\* 32-bit words of its type
Cif0FieldsDecl == <<<<"bandwidth", 2>>, <<"rf_ref_freq", 2>>>>

\* Cif1: the bit that cif_field! / todo_cif_field! gives each indicator
Cif1Bits ==
    [phase_offset |-> 31, polarization |-> 30,
     three_d_pointing_vector |-> 29, three_d_pointing_vector_struct |-> 28,
     spatial_scan_type |-> 27, spatial_ref_type |-> 26, beam_widths |-> 25,
     range |-> 24, eb_over_no_and_ber |-> 20, threshold |-> 19,
     compression_point |-> 18,
     second_and_third_order_intercept_points |-> 17, snr_figure |-> 16,
     aux_freq |-> 15, aux_gain |-> 14, aux_bandwidth |-> 13,
     array_of_cifs |-> 11, spectrum |-> 10, sector_scan |-> 9,
     index_list |-> 7, discrete_io_32 |-> 6, discrete_io_64 |-> 5,
     health_status |-> 4, v49_spec_compliance |-> 3,
     version_and_build_code |-> 2, buffer_size |-> 1]

\* Cif1: the indicators declared with todo_cif_field!
Cif1Todo ==
    {"three_d_pointing_vector_struct", "array_of_cifs", "sector_scan",
     "index_list"}

\* Cif1Fields: the fields in declaration order, each with the 32-bit
\* words of its type
Cif1FieldsDecl ==
    <<<<"phase_offset", 1>>, <<"polarization", 1>>,
      <<"three_d_pointing_vector", 1>>,
      <<"three_d_pointing_vector_struct", 1>>, <<"spatial_scan_type", 1>>,
      <<"spatial_ref_type", 1>>, <<"beam_widths", 1>>, <<"range", 1>>,
      <<"eb_over_no_and_ber", 1>>, <<"threshold", 1>>,
      <<"compression_point", 1>>,
      <<"second_and_third_order_intercept_points", 1>>, <<"snr_figure", 1>>,
      <<"aux_freq", 2>>, <<"aux_gain", 1>>, <<"aux_bandwidth", 2>>,
      <<"array_of_cifs", 1>>, <<"spectrum", 13>>, <<"sector_scan", 1>>,
      <<"index_list", 1>>, <<"discrete_io_32", 1>>, <<"discrete_io_64", 2>>,
      <<"health_status", 1>>, <<"v49_spec_compliance", 1>>,
      <<"version_and_build_code", 1>>, <<"buffer_size", 2>>>>

\* Cif1AckFields: the fields in declaration order (each an AckResponse,
\* one word)
Cif1AckFieldsDecl ==
    <<<<"phase_offset", 1>>, <<"polarization", 1>>,
      <<"three_d_pointing_vector", 1>>,
      <<"three_d_pointing_vector_struct", 1>>, <<"spatial_scan_type", 1>>,
      <<"spatial_ref_type", 1>>, <<"beam_widths", 1>>, <<"range", 1>>,
      <<"eb_over_no_and_ber", 1>>, <<"threshold", 1>>,
      <<"compression_point", 1>>,
      <<"second_and_third_order_intercept_points", 1>>, <<"snr_figure", 1>>,
      <<"aux_freq", 1>>, <<"aux_gain", 1>>, <<"aux_bandwidth", 1>>,
      <<"array_of_cifs", 1>>, <<"spectrum", 1>>, <<"sector_scan", 1>>,
      <<"index_list", 1>>, <<"discrete_io_32", 1>>, <<"discrete_io_64", 1>>,
      <<"health_status", 1>>, <<"v49_spec_compliance", 1>>,
      <<"version_and_build_code", 1>>, <<"buffer_size", 1>>>>

\* Cif2: the bit that cif_field! / todo_cif_field! gives each indicator
Cif2Bits ==
    [bind |-> 31, cited_sid |-> 30, sibling_sid |-> 29, parent_sid |-> 28,
     child_sid |-> 27, cited_message_id |-> 26, controllee_id |-> 25,
     controllee_uuid |-> 24, controller_id |-> 23, controller_uuid |-> 22,
     info_source_id |-> 21, track_id |-> 20, country_code |-> 19,
     operator |-> 18, platform_class |-> 17, platform_instance |-> 16,
     platform_display |-> 15, ems_device_class |-> 14,
     ems_device_type |-> 13, ems_device_instance |-> 12,
     modulation_class |-> 11, modulation_type |-> 10, function_id |-> 9,
     mode_id |-> 8, event_id |-> 7, function_priority_id |-> 6,
     comms_priority_id |-> 5, rf_footprint |-> 4, rf_footprint_range |-> 3]

\* Cif2: the indicators declared with todo_cif_field!
Cif2Todo ==
    {}

\* Cif2Fields: the fields in declaration order, each with the 32-bit
\* words of its type
Cif2FieldsDecl ==
    <<<<"bind", 1>>, <<"cited_sid", 1>>, <<"sibling_sid", 1>>,
      <<"parent_sid", 1>>, <<"child_sid", 1>>, <<"cited_message_id", 1>>,
      <<"controllee_id", 1>>, <<"controllee_uuid", 4>>,
      <<"controller_id", 1>>, <<"controller_uuid", 4>>,
      <<"info_source_id", 1>>, <<"track_id", 1>>, <<"country_code", 1>>,
      <<"operator", 1>>, <<"platform_class", 1>>,
      <<"platform_instance", 1>>, <<"platform_display", 1>>,
      <<"ems_device_class", 1>>, <<"ems_device_type", 1>>,
      <<"ems_device_instance", 1>>, <<"modulation_class", 1>>,
      <<"modulation_type", 1>>, <<"function_id", 1>>, <<"mode_id", 1>>,
      <<"event_id", 1>>, <<"function_priority_id", 1>>,
      <<"comms_priority_id", 1>>, <<"rf_footprint", 1>>,
      <<"rf_footprint_range", 1>>>>

\* Cif2AckFields: the fields in declaration order (each an AckResponse,
\* one word)
Cif2AckFieldsDecl ==
    <<<<"bind", 1>>, <<"cited_sid", 1>>, <<"sibling_sid", 1>>,
      <<"parent_sid", 1>>, <<"child_sid", 1>>, <<"cited_message_id", 1>>,
      <<"controllee_id", 1>>, <<"controllee_uuid", 1>>,
      <<"controller_id", 1>>, <<"controller_uuid", 1>>,
      <<"info_source_id", 1>>, <<"track_id", 1>>, <<"country_code", 1>>,
      <<"operator", 1>>, <<"platform_class", 1>>,
      <<"platform_instance", 1>>, <<"platform_display", 1>>,
      <<"ems_device_class", 1>>, <<"ems_device_type", 1>>,
      <<"ems_device_instance", 1>>, <<"modulation_class", 1>>,
      <<"modulation_type", 1>>, <<"function_id", 1>>, <<"mode_id", 1>>,
      <<"event_id", 1>>, <<"function_priority_id", 1>>,
      <<"comms_priority_id", 1>>, <<"rf_footprint", 1>>,
      <<"rf_footprint_range", 1>>>>

\* Cif3: the bit that cif_field! / todo_cif_field! gives each indicator
Cif3Bits ==
    [timestamp_details |-> 31, timestamp_skew |-> 30, rise_time |-> 27,
     fall_time |-> 26, offset_time |-> 25, pulse_width |-> 24,
     period |-> 23, duration |-> 22, dwell |-> 21, jitter |-> 20,
     age |-> 17, shelf_life |-> 16, air_temp |-> 7, ground_temp |-> 6,
     humidity |-> 5, barometric_pressure |-> 4, sea_and_swell_state |-> 3,
     tropospheric_state |-> 2, network_id |-> 1]

\* Cif3: the indicators declared with todo_cif_field!
Cif3Todo ==
    {"age", "shelf_life"}

\* Cif3Fields: the fields in declaration order, each with the 32-bit
\* words of its type
Cif3FieldsDecl ==
    <<<<"timestamp_details", 2>>, <<"timestamp_skew", 2>>,
      <<"rise_time", 2>>, <<"fall_time", 2>>, <<"offset_time", 2>>,
      <<"pulse_width", 2>>, <<"period", 2>>, <<"duration", 2>>,
      <<"dwell", 2>>, <<"jitter", 2>>, <<"age", 1>>, <<"shelf_life", 1>>,
      <<"air_temp", 1>>, <<"ground_temp", 1>>, <<"humidity", 1>>,
      <<"barometric_pressure", 1>>, <<"sea_and_swell_state", 1>>,
      <<"tropospheric_state", 1>>, <<"network_id", 1>>>>

\* Cif3AckFields: the fields in declaration order (each an AckResponse,
\* one word)
Cif3AckFieldsDecl ==
    <<<<"timestamp_details", 1>>, <<"timestamp_skew", 1>>,
      <<"rise_time", 1>>, <<"fall_time", 1>>, <<"offset_time", 1>>,
      <<"pulse_width", 1>>, <<"period", 1>>, <<"duration", 1>>,
      <<"dwell", 1>>, <<"jitter", 1>>, <<"age", 1>>, <<"shelf_life", 1>>,
      <<"air_temp", 1>>, <<"ground_temp", 1>>, <<"humidity", 1>>,
      <<"barometric_pressure", 1>>, <<"sea_and_swell_state", 1>>,
      <<"tropospheric_state", 1>>, <<"network_id", 1>>>>

CifBits(n) ==
    CASE n = 0 -> Cif0Bits [] n = 1 -> Cif1Bits
      [] n = 2 -> Cif2Bits [] n = 3 -> Cif3Bits

CifTodo(n) == CASE n = 1 -> Cif1Todo [] n = 3 -> Cif3Todo [] OTHER -> {}

CifFieldsDecl(n) ==
    CASE n = 0 -> Cif0FieldsDecl [] n = 1 -> Cif1FieldsDecl
      [] n = 2 -> Cif2FieldsDecl [] n = 3 -> Cif3FieldsDecl

\* Cif0AckFields: an AckResponse, one word, for each field of CIF0
Cif0AckFieldsDecl == <<<<"bandwidth", 1>>, <<"rf_ref_freq", 1>>>>

CifAckFieldsDecl(n) ==
    CASE n = 0 -> Cif0AckFieldsDecl [] n = 1 -> Cif1AckFieldsDecl
      [] n = 2 -> Cif2AckFieldsDecl [] n = 3 -> Cif3AckFieldsDecl

\* the names a fields structure declares
FieldNames(decl) == {decl[i][1] : i \in 1 .. Len(decl)}

\* cif_field!: the getter, set_<field>() and unset_<field>() of an indicator
cif_field(n, w, x) == WordBitIsSet(w, CifBits(n)[x])

set_cif_field(n, w, x) == WordSetBit(w, CifBits(n)[x])

unset_cif_field(n, w, x) == WordUnsetBit(w, CifBits(n)[x])

\* Cif1::empty(), Cif2::empty(), Cif3::empty()
empty(w) == w = ZeroWord

\* the Default of a fields structure: no value, no attribute of any field
CifFieldsDefault(n) ==
    [val |-> [x \in FieldNames(CifFieldsDecl(n)) |-> None],
     attr |-> [x \in FieldNames(CifFieldsDecl(n)) |-> <<>>]]

Cif0FieldsDefault == CifFieldsDefault(0)

\* <Fields>::empty() that looks at the attributes alone
fields_empty_ignoring_values(f) == \A x \in DOMAIN f.val : f.attr[x] = <<>>

\* <Fields>::empty()
fields_empty(f) ==
    \A x \in DOMAIN f.val : ~(IsSome(f.val[x]) \/ f.attr[x] # <<>>)

RECURSIVE fields_size_words_from(_, _, _)
fields_size_words_from(decl, f, i) ==
    IF i > Len(decl) THEN 0
    ELSE (IF IsSome(f.val[decl[i][1]]) THEN decl[i][2] ELSE 0)
         + decl[i][2] * Len(f.attr[decl[i][1]])
         + fields_size_words_from(decl, f, i + 1)

\* <Fields>::size_words(): the words of every value and every attribute
fields_size_words(n, f) == fields_size_words_from(CifFieldsDecl(n), f, 1)

cif0_fields_size_words(f) == fields_size_words(0, f)

---------------------------------------------------------------------------
(* CIF7: the attribute indicators and the options the field readers get *)

Cif7CurrentBit == 31

cif7_current(c) == WordBitIsSet(c, Cif7CurrentBit)

\* Cif7::num_set(): count_ones()
num_set(c) == Cardinality({b \in AllWordBits : WordBitIsSet(c, b)})

\* Cif7Opts::from(Option<&Cif7>)
Cif7OptsFrom(cif7) ==
    IF IsSome(cif7)
    THEN [current_val |-> cif7_current(cif7[1]),
          num_extra_attrs |-> IF num_set(cif7[1]) > 0
                              THEN num_set(cif7[1]) - 1 ELSE 0]
    ELSE [current_val |-> TRUE, num_extra_attrs |-> 0]

---------------------------------------------------------------------------
(* Payloads *)

CommandDefault ==
    [kind |-> "Command", cam |-> ZeroWord, message_id |-> ZeroWord,
     controllee_id |-> None, controllee_uuid |-> None,
     controller_id |-> None, controller_uuid |-> None,
     cif0 |-> ZeroWord, cif |-> <<None, None, None>>, cif7 |-> None,
     cif0_fields |-> Cif0FieldsDefault,
     cif_fields |-> <<None, None, None>>]

ContextDefault ==
    [kind |-> "Context",
     cif0 |-> ZeroWord, cif |-> <<None, None, None>>, cif7 |-> None,
     cif0_fields |-> Cif0FieldsDefault,
     cif_fields |-> <<None, None, None>>]

SignalDataNew == [kind |-> "SignalData", data |-> <<>>]

\* Command::new_control(), new_cancellation(), new_validation_ack(),
\* new_exec_ack() and new_query_ack(): an empty Command, as Command::new()
new_command == CommandDefault

\* Command::set_cam()
set_cam(c, mode) == [c EXCEPT !.cam = mode]

---------------------------------------------------------------------------
(* Command: the identifier setters.  Each returns the command after the   *)
(* call and the Result.                                                   *)

\* set_controllee_id() with its guard on the field it is about to store
set_controllee_id_guarding_id(c, id) ==
    IF IsSome(c.controllee_id)
    THEN [cmd |-> c, res |-> "TriedIdWhenUuidSet"]
    ELSE [cmd |-> [c EXCEPT
                    !.controllee_id = id,
                    !.cam = IF IsSome(id)
                            THEN set_controllee_id_format(enable_controllee(c.cam), "Id32bit")
                            ELSE set_controllee_id_format(disable_controllee(c.cam), "Uuid128bit")],
          res |-> "Ok"]

set_controllee_id(c, id) ==
    IF IsSome(c.controllee_uuid)
    THEN [cmd |-> c, res |-> "TriedIdWhenUuidSet"]
    ELSE [cmd |-> [c EXCEPT
                    !.controllee_id = id,
                    !.cam = IF IsSome(id)
                            THEN set_controllee_id_format(enable_controllee(c.cam), "Id32bit")
                            ELSE set_controllee_id_format(disable_controllee(c.cam), "Uuid128bit")],
          res |-> "Ok"]

set_controller_id(c, id) ==
    IF IsSome(c.controller_uuid)
    THEN [cmd |-> c, res |-> "TriedIdWhenUuidSet"]
    ELSE [cmd |-> [c EXCEPT
                    !.controller_id = id,
                    !.cam = IF IsSome(id)
                            THEN set_controller_id_format(enable_controller(c.cam), "Id32bit")
                            ELSE set_controller_id_format(disable_controller(c.cam), "Uuid128bit")],
          res |-> "Ok"]

\* the guard reads controllee_uuid, not controllee_id
set_controllee_uuid(c, uuid) ==
    IF IsSome(c.controllee_uuid)
    THEN [cmd |-> c, res |-> "TriedUuidWhenIdSet"]
    ELSE [cmd |-> [c EXCEPT
                    !.controllee_uuid = uuid,
                    !.cam = IF IsSome(uuid)
                            THEN set_controllee_id_format(enable_controllee(c.cam), "Uuid128bit")
                            ELSE set_controllee_id_format(disable_controllee(c.cam), "Id32bit")],
          res |-> "Ok"]

\* the guard reads controller_uuid, not controller_id
set_controller_uuid(c, uuid) ==
    IF IsSome(c.controller_uuid)
    THEN [cmd |-> c, res |-> "TriedUuidWhenIdSet"]
    ELSE [cmd |-> [c EXCEPT
                    !.controller_uuid = uuid,
                    !.cam = IF IsSome(uuid)
                            THEN set_controller_id_format(enable_controller(c.cam), "Uuid128bit")
                            ELSE set_controller_id_format(disable_controller(c.cam), "Id32bit")],
          res |-> "Ok"]

\* the words size_words() adds for CIF1..3 and CIF7: one for each indicator
\* word and the words of its fields where the fields structure is there, one
\* for CIF7 where CIF0 announces it
cif_size_words(c) ==
    (IF IsSome(c.cif_fields[1])
     THEN 1 + fields_size_words(1, c.cif_fields[1][1]) ELSE 0)
    + (IF IsSome(c.cif_fields[2])
       THEN 1 + fields_size_words(2, c.cif_fields[2][1]) ELSE 0)
    + (IF IsSome(c.cif_fields[3])
       THEN 1 + fields_size_words(3, c.cif_fields[3][1]) ELSE 0)
    + (IF field_attributes_enabled(c.cif0) THEN 1 ELSE 0)

\* Command::size_words()
command_size_words(c) ==
    1 + cif0_fields_size_words(c.cif0_fields)
    + 1                                           \* cam.size_words()
    + 1                                           \* message_id
    + (IF IsSome(c.controllee_id) THEN 1
       ELSE IF IsSome(c.controllee_uuid) THEN 4 ELSE 0)
    + (IF IsSome(c.controller_id) THEN 1
       ELSE IF IsSome(c.controller_uuid) THEN 4 ELSE 0)
    + cif_size_words(c)

\* Context::size_words()
context_size_words(c) ==
    1 + cif0_fields_size_words(c.cif0_fields) + cif_size_words(c)

\* SignalData::size_words()
signal_data_size_words(p) == Len(p.data)

\* Payload::size_words()
payload_words(p) ==
    IF p.kind = "SignalData" THEN signal_data_size_words(p)
    ELSE IF p.kind = "Context" THEN context_size_words(p)
    ELSE command_size_words(p)

---------------------------------------------------------------------------
(* The field setters the CIF macros generate, on a payload p that has the  *)
(* indicator words and the fields structures (Context, Command).           *)

\* set_<field>() of a CIF0 field without the unset branch
set_fn0_never_unsetting(p, x, v) ==
    [p EXCEPT !.cif0_fields.val[x] = v, !.cif0 = set_cif_field(0, p.cif0, x)]

\* set_<field>() of a CIF0 field: store the value, then set or unset its bit
set_fn0(p, x, v) ==
    [p EXCEPT !.cif0_fields.val[x] = v,
              !.cif0 = IF IsSome(v) THEN set_cif_field(0, p.cif0, x)
                                    ELSE unset_cif_field(0, p.cif0, x)]

\* set_<field>_attributes() of a CIF0 field
set_attr_fn0(p, x, a) ==
    IF IsSome(a)
    THEN [p EXCEPT !.cif0_fields.attr[x] = a[1],
                   !.cif0 = set_cif_field(0, set_field_attributes_enabled(p.cif0), x)]
    ELSE [p EXCEPT !.cif0_fields.attr[x] = <<>>]

\* the indicator word and the fields structure of CIF n after the Some
\* branch of a setter has made sure they are there and set the field's bit
cif_with_field(p, n, x) ==
    [p EXCEPT !.cif0 = IF IsNone(p.cif[n])
                       THEN WordSetBit(@, CifEnabledBit[n]) ELSE @,
              !.cif[n] = Some(set_cif_field(n, IF IsNone(@) THEN ZeroWord
                                                ELSE @[1], x)),
              !.cif_fields[n] = IF IsNone(@) THEN Some(CifFieldsDefault(n))
                                ELSE @]

\* set_<field>() of a CIF1, CIF2 or CIF3 field
set_fn(p, n, x, v) ==
    IF IsSome(v)
    THEN [cif_with_field(p, n, x) EXCEPT !.cif_fields[n][1].val[x] = v]
    ELSE
    LET c == IF IsSome(p.cif[n])
             THEN Some(unset_cif_field(n, p.cif[n][1], x)) ELSE None
        clear_cif == IsSome(c) /\ empty(c[1])
        f == IF IsSome(p.cif_fields[n])
             THEN Some([p.cif_fields[n][1] EXCEPT !.val[x] = None,
                                                  !.attr[x] = <<>>])
             ELSE None
        clear_fields == IsSome(f) /\ fields_empty(f[1])
    IN  [p EXCEPT !.cif[n] = IF clear_cif THEN None ELSE c,
                  !.cif0 = IF clear_cif THEN WordUnsetBit(@, CifEnabledBit[n])
                           ELSE @,
                  !.cif_fields[n] = IF clear_fields THEN None ELSE f]

\* set_<field>_attributes() of a CIF1, CIF2 or CIF3 field
set_attr_fn(p, n, x, a) ==
    IF IsSome(a)
    THEN [cif_with_field([p EXCEPT !.cif0 = set_field_attributes_enabled(@)],
                         n, x)
          EXCEPT !.cif_fields[n][1].attr[x] = a[1]]
    ELSE IF IsSome(p.cif_fields[n])
         THEN [p EXCEPT !.cif_fields[n][1].attr[x] = <<>>]
         ELSE p

\* ContextManipulators / ControlManipulators::set_bandwidth_hz()
set_bandwidth_hz(p, v) == set_fn0(p, "bandwidth", v)

---------------------------------------------------------------------------
(* Validation and execution ACK: the warning (WIF) and error (EIF)         *)
(* indicator words of CIF0..CIF3, each with its container of responses     *)

AckLevel == {"Warning", "Error"}

\* the accessors of a level: wif<N>() / eif<N>() give the indicator word,
\* wif<N>_fields() / eif<N>_fields() the container
ack_if(level) == IF level = "Warning" THEN "wif" ELSE "eif"

ack_if_fields(level) ==
    IF level = "Warning" THEN "wif_fields" ELSE "eif_fields"

\* the Default of a container of responses: no response of any field
AckFieldsDefault(n) ==
    [val |-> [x \in FieldNames(CifAckFieldsDecl(n)) |-> None],
     attr |-> [x \in FieldNames(CifAckFieldsDecl(n)) |-> <<>>]]

\* a new ACK: no indicator word and no container on either side
AckDefault ==
    [kind |-> "Ack",
     wif |-> [n \in 0 .. 3 |-> None], wif_fields |-> [n \in 0 .. 3 |-> None],
     eif |-> [n \in 0 .. 3 |-> None], eif_fields |-> [n \in 0 .. 3 |-> None]]

\* <accessor>_mut().unwrap().<setter>(): the accessor returns
\* &mut Option<CifN> and CifN is Copy, so unwrap() takes the Option by value
\* and the setter changes the word w of a temporary: stored stays as it was
unwrap_copy(stored, w) == stored

\* ack_field!(0, <field>): set_<field>(level, response) with the accessors
\* i and fs of the level, every change made in place
set_ack_field_fn0_keeping_container(a, i, fs, x, response) ==
    IF IsSome(response)
    THEN [a EXCEPT
            ![i][0] = Some(set_cif_field(0, IF IsNone(@) THEN ZeroWord
                                            ELSE @[1], x)),
            ![fs][0] = Some([(IF IsNone(@) THEN AckFieldsDefault(0)
                              ELSE @[1]) EXCEPT !.val[x] = response])]
    ELSE [a EXCEPT
            ![i][0] = IF IsSome(@) /\ ~empty(unset_cif_field(0, @[1], x))
                      THEN Some(unset_cif_field(0, @[1], x)) ELSE None,
            ![fs][0] = IF IsSome(@)
                       THEN Some([@[1] EXCEPT !.val[x] = None]) ELSE None]

set_ack_field_fn0_at(a, i, fs, x, response) ==
    IF IsSome(response)
    THEN [a EXCEPT
            ![i][0] = Some(set_cif_field(0, IF IsNone(@) THEN ZeroWord
                                            ELSE @[1], x)),
            ![fs][0] = Some([(IF IsNone(@) THEN AckFieldsDefault(0)
                              ELSE @[1]) EXCEPT !.val[x] = response])]
    ELSE [a EXCEPT
            ![i][0] = IF IsSome(@) /\ ~empty(unset_cif_field(0, @[1], x))
                      THEN Some(unset_cif_field(0, @[1], x)) ELSE None,
            ![fs][0] = IF IsSome(@)
                          /\ ~fields_empty([@[1] EXCEPT !.val[x] = None])
                       THEN Some([@[1] EXCEPT !.val[x] = None]) ELSE None]

\* set_<field>(level, response) of a CIF0 field
set_ack_field_fn0(a, level, x, response) ==
    set_ack_field_fn0_at(a, ack_if(level), ack_if_fields(level), x, response)

\* ack_field!(N, <field>), N in 1..3: set_<field>(level, response) with the
\* accessors i and fs of the level. With Some(r) the indicator word and, if
\* the CIF0-shaped word of the level is absent, that word are created; the
\* field's bit and the cifN-enabled bit are set through unwrap(); the
\* container is changed in place. With None every change is made in place.
set_ack_field_fn_at(a, i, fs, n, x, response) ==
    IF IsSome(response)
    THEN [a EXCEPT
            ![i][n] = unwrap_copy(IF IsNone(@) THEN Some(ZeroWord) ELSE @,
                          set_cif_field(n, IF IsNone(@) THEN ZeroWord
                                           ELSE @[1], x)),
            ![i][0] = IF IsNone(a[i][n]) /\ IsNone(@)
                      THEN unwrap_copy(Some(ZeroWord),
                               WordSetBit(ZeroWord, CifEnabledBit[n]))
                      ELSE @,
            ![fs][n] = Some([(IF IsNone(@) THEN AckFieldsDefault(n)
                              ELSE @[1]) EXCEPT !.val[x] = response])]
    ELSE [a EXCEPT
            ![fs][n] = IF IsSome(a[i][n])
                          /\ empty(unset_cif_field(n, a[i][n][1], x))
                       THEN None
                       ELSE IF IsSome(@)
                            THEN Some([@[1] EXCEPT !.val[x] = None]) ELSE @,
            ![i][n] = IF IsSome(@) /\ ~empty(unset_cif_field(n, @[1], x))
                      THEN Some(unset_cif_field(n, @[1], x)) ELSE None,
            ![i][0] = IF IsSome(a[i][n])
                         /\ empty(unset_cif_field(n, a[i][n][1], x))
                         /\ IsSome(@)
                      THEN Some(WordUnsetBit(@[1], CifEnabledBit[n]))
                      ELSE @]

\* set_<field>(level, response) of a CIF1, CIF2 or CIF3 field
set_ack_field_fn(a, level, n, x, response) ==
    set_ack_field_fn_at(a, ack_if(level), ack_if_fields(level), n, x,
                        response)

\* <field>(): the response of the error side if there is one, else the
\* response of the warning side, each with its level
ack_field(a, n, x) ==
    IF IsSome(a.eif_fields[n]) /\ IsSome(a.eif_fields[n][1].val[x])
    THEN Some(<<"Error", a.eif_fields[n][1].val[x][1]>>)
    ELSE IF IsSome(a.wif_fields[n]) /\ IsSome(a.wif_fields[n][1].val[x])
         THEN Some(<<"Warning", a.wif_fields[n][1].val[x][1]>>)
         ELSE None

---------------------------------------------------------------------------
(* Gain and Threshold: an i32 word holding two FixedI16<U7> values. A dB    *)
(* value is held as its number of 1/128 dB steps, which is what from_num()  *)
(* and to_num() convert to and from the bits.                               *)

RECURSIVE BitAnd16From(_, _, _)
BitAnd16From(a, b, i) ==
    IF i = HalfBits THEN 0
    ELSE (IF BitIsSet16(a, i) /\ BitIsSet16(b, i) THEN 2^i ELSE 0)
         + BitAnd16From(a, b, i + 1)

RECURSIVE BitOr16From(_, _, _)
BitOr16From(a, b, i) ==
    IF i = HalfBits THEN 0
    ELSE (IF BitIsSet16(a, i) \/ BitIsSet16(b, i) THEN 2^i ELSE 0)
         + BitOr16From(a, b, i + 1)

\* a & b and a | b on 32-bit words
WordAnd(a, b) == Word(BitAnd16From(a[1], b[1], 0), BitAnd16From(a[2], b[2], 0))

WordOr(a, b) == Word(BitOr16From(a[1], b[1], 0), BitOr16From(a[2], b[2], 0))

\* the masks 0xFFFF_0000 and 0x0000_FFFF
HighHalfMask == Word(HalfMod - 1, 0)

LowHalfMask == Word(0, HalfMod - 1)

\* FixedI16::<U7>::from_num(x).to_bits(): the two's complement bits of the
\* steps of x
fixed_to_bits(x) == IF x < 0 THEN x + HalfMod ELSE x

\* FixedI16::<U7>::from_bits(b as i16).to_num()
fixed_from_bits(b) == IF b >= HalfMod \div 2 THEN b - HalfMod ELSE b

\* (b: i16) as i32: the sign is extended into the high half
as_i32(b) == Word(IF b >= HalfMod \div 2 THEN HalfMod - 1 ELSE 0, b)

\* w << 16
shl_16(w) == Word(w[2], 0)

\* Gain::new() and Threshold::new(): (s2 << 16) | s1
stage_new(stage_1, stage_2) ==
    WordOr(shl_16(as_i32(fixed_to_bits(stage_2))),
           as_i32(fixed_to_bits(stage_1)))

\* stage_1_gain_db() and stage_1_threshold_db(): (self.0 & 0xFFFF) as i16
stage_1_db(w) == fixed_from_bits(WordAnd(w, LowHalfMask)[2])

\* stage_2_gain_db() and stage_2_threshold_db():
\* ((self.0 >> 16) & 0xFFFF) as i16
stage_2_db(w) == fixed_from_bits(w[1])

\* Gain::set_stage_1_gain_db(): (self.0 & 0xFFFF_0000) & s1
set_stage_1_gain_db(w, x) ==
    WordAnd(WordAnd(w, HighHalfMask), as_i32(fixed_to_bits(x)))

\* Gain::set_stage_2_gain_db(): (self.0 & 0x0000_FFFF) & (s2 << 16)
set_stage_2_gain_db(w, x) ==
    WordAnd(WordAnd(w, LowHalfMask), shl_16(as_i32(fixed_to_bits(x))))

\* Threshold::set_stage_1_threshold_db(): (self.0 & 0xFFFF_0000) | s1
set_stage_1_threshold_db(w, x) ==
    WordOr(WordAnd(w, HighHalfMask), as_i32(fixed_to_bits(x)))

\* Threshold::set_stage_2_threshold_db(): (self.0 & 0x0000_FFFF) | (s2 << 16)
set_stage_2_threshold_db(w, x) ==
    WordOr(WordAnd(w, LowHalfMask), shl_16(as_i32(fixed_to_bits(x))))

---------------------------------------------------------------------------
(* Spectrum: the packed spectrum-type word and the window-type word. A     *)
(* variant of an enumeration is <<name>>, or <<name, v>> where it holds v. *)

\* From<u8> for SpectrumType: the variant of each value 0..4, in order
SpectrumTypeFromU8 ==
    <<"Default", "LogPowerDb", "Cartesian", "Polar", "Magnitude">>

\* From<SpectrumType> for u8
SpectrumTypeIntoU8 ==
    [Default |-> 0, LogPowerDb |-> 1, Cartesian |-> 2, Polar |-> 3,
     Magnitude |-> 4]

spectrum_type_from_u8(value) ==
    IF value < Len(SpectrumTypeFromU8) THEN <<SpectrumTypeFromU8[value + 1]>>
    ELSE IF value <= 127 THEN <<"Reserved">>
    ELSE <<"UserDefined", value>>

\* From<AveragingType> for u8, and From<u8> for AveragingType, which lists
\* the same values; every other value is Reserved
AveragingTypeIntoU8 ==
    [None |-> 0, Linear |-> 1, PeakHold |-> 2, MinHold |-> 4,
     Exponential |-> 8, Median |-> 16, Smoothing |-> 32]

averaging_type_from_u8(value) ==
    IF \E n \in DOMAIN AveragingTypeIntoU8 : AveragingTypeIntoU8[n] = value
    THEN <<CHOOSE n \in DOMAIN AveragingTypeIntoU8 :
               AveragingTypeIntoU8[n] = value>>
    ELSE <<"Reserved">>

\* From<u8> for WindowTimeDeltaInterpretation: the variant of each value
\* 0..3, in order
WindowTimeDeltaInterpretationFromU8 ==
    <<"OverlapNotControlled", "PercentOverlap", "Samples", "Time">>

\* From<WindowTimeDeltaInterpretation> for u8
WindowTimeDeltaInterpretationIntoU8 ==
    [OverlapNotControlled |-> 0, PercentOverlap |-> 1, Samples |-> 2,
     Time |-> 3]

window_time_delta_interpretation_from_u8(value) ==
    IF value < Len(WindowTimeDeltaInterpretationFromU8)
    THEN <<WindowTimeDeltaInterpretationFromU8[value + 1]>>
    ELSE <<"Reserved">>

\* From<u8> for WindowType: the variant of each value 0..43, in order
WindowTypeFromU8 ==
    <<"Rectangle", "Triangle", "Hanning100", "Hanning200", "Hanning300",
      "Hanning400", "Hamming", "Riesz", "Riemann", "DeLaVallepoussin",
      "Tukey025", "Tukey050", "Tukey075", "Bohman", "Poisson200",
      "Poisson300", "Poisson400", "HanningPoisson050",
      "HanningPoisson100", "HanningPoisson200", "Cauchy300", "Cauchy400",
      "Cauchy500", "Gaussian250", "Gaussian300", "Gaussian350",
      "DolphChebyshiev250", "DolphChebyshiev300", "DolphChebyshiev350",
      "DolphChebyshiev400", "KaiserBessel200", "KaiserBessel250",
      "KaiserBessel300", "KaiserBessel350", "BarcilonTemes300",
      "BarcilonTemes350", "BarcilonTemes400", "ExactBlackman", "Blackman",
      "BlackmanHarrisMin3Sample", "BlackmanHarrisMin4Sample",
      "BlackmanHarris61Db3Sample", "BlackmanHarris74Db4Sample",
      "KaiserBessel4Sample300">>

\* From<WindowType> for u8: the value of each variant but Other and Reserved
WindowTypeIntoU8 ==
    [Rectangle |-> 0, Triangle |-> 1, Hanning100 |-> 2, Hanning200 |-> 3,
     Hanning300 |-> 4, Hanning400 |-> 5, Hamming |-> 6, Riesz |-> 7,
     Riemann |-> 8, DeLaVallepoussin |-> 9, Tukey025 |-> 10, Tukey050 |->
     11, Tukey075 |-> 12, Bohman |-> 13, Poisson200 |-> 14, Poisson300 |->
     15, Poisson400 |-> 16, HanningPoisson050 |-> 17, HanningPoisson100
     |-> 18, HanningPoisson200 |-> 19, Cauchy300 |-> 20, Cauchy400 |-> 21,
     Cauchy500 |-> 22, Gaussian250 |-> 23, Gaussian300 |-> 24, Gaussian350
     |-> 25, DolphChebyshiev250 |-> 26, DolphChebyshiev300 |-> 27,
     DolphChebyshiev350 |-> 28, DolphChebyshiev400 |-> 29, KaiserBessel200
     |-> 30, KaiserBessel250 |-> 31, KaiserBessel300 |-> 32,
     KaiserBessel350 |-> 33, BarcilonTemes300 |-> 34, BarcilonTemes350 |->
     35, BarcilonTemes400 |-> 36, ExactBlackman |-> 37, Blackman |-> 38,
     BlackmanHarrisMin3Sample |-> 39, BlackmanHarrisMin4Sample |-> 40,
     BlackmanHarris61Db3Sample |-> 41, BlackmanHarris74Db4Sample |-> 42,
     KaiserBessel4Sample300 |-> 43]

window_type_from_u8(value) ==
    IF value < Len(WindowTypeFromU8) THEN <<WindowTypeFromU8[value + 1]>>
    ELSE IF value <= 99 THEN <<"Reserved">>
    ELSE <<"Other", value>>

window_type_into_u8(w) ==
    IF w[1] = "Other" THEN w[2] ELSE WindowTypeIntoU8[w[1]]

\* Spectrum::default(): every field 0
SpectrumDefault ==
    [kind |-> "Spectrum", spectrum_type |-> ZeroWord, window_type |-> ZeroWord]

\* spectrum_type(): (self.spectrum_type & 0xFF) as u8
spectrum_type(sp) == spectrum_type_from_u8(GetBits16(sp.spectrum_type[2], 0, 8))

\* set_spectrum_type(): (self.spectrum_type & !0xFF) | v
set_spectrum_type(sp, t) ==
    IF t[1] = "UserDefined"
    THEN IF t[2] < 128 THEN [sp |-> sp, res |-> "OutOfRange"]
         ELSE [sp |-> [sp EXCEPT !.spectrum_type[2] = PutBits16(@, 0, 8, t[2])],
               res |-> "Ok"]
    ELSE IF t[1] = "Reserved" THEN [sp |-> sp, res |-> "ReservedField"]
    ELSE [sp |-> [sp EXCEPT !.spectrum_type[2] =
                      PutBits16(@, 0, 8, SpectrumTypeIntoU8[t[1]])],
          res |-> "Ok"]

\* averaging_type(): ((self.spectrum_type >> 8) & 0xFF) as u8
averaging_type(sp) ==
    averaging_type_from_u8(GetBits16(sp.spectrum_type[2], 8, 8))

\* set_averaging_type(): (self.spectrum_type & !(0xFF << 8)) | (v << 8)
set_averaging_type(sp, t) ==
    IF t[1] = "Reserved" THEN [sp |-> sp, res |-> "ReservedField"]
    ELSE [sp |-> [sp EXCEPT !.spectrum_type[2] =
                      PutBits16(@, 8, 8, AveragingTypeIntoU8[t[1]])],
          res |-> "Ok"]

\* window_time_delta_interpretation():
\* ((self.spectrum_type >> 16) & 0b1111) as u8
window_time_delta_interpretation(sp) ==
    window_time_delta_interpretation_from_u8(
        GetBits16(sp.spectrum_type[1], 0, 4))

\* set_window_time_delta_interpretation():
\* (self.spectrum_type & !(0b1111 << 8)) | (v << 16)
set_window_time_delta_interpretation(sp, t) ==
    IF t[1] = "Reserved" THEN [sp |-> sp, res |-> "ReservedField"]
    ELSE [sp |-> [sp EXCEPT
                    !.spectrum_type[2] = PutBits16(@, 8, 4, 0),
                    !.spectrum_type[1] =
                        BitOr16From(@, WindowTimeDeltaInterpretationIntoU8[t[1]],
                                    0)],
          res |-> "Ok"]

\* window_type(): (self.window_type & 0xFF) as u8
window_type(sp) == window_type_from_u8(GetBits16(sp.window_type[2], 0, 8))

\* set_window_type(): Reserved is refused, else the word is the value
set_window_type(sp, w) ==
    IF w[1] = "Reserved" THEN [sp |-> sp, res |-> "ReservedField"]
    ELSE [sp |-> [sp EXCEPT !.window_type = Word(0, window_type_into_u8(w))],
          res |-> "Ok"]

---------------------------------------------------------------------------
(* ClassIdentifier: word_1 holds the pad bit count (bits 27..31), three    *)
(* reserved bits (24..26) and the OUI (0..23)                              *)

\* ClassIdentifier::default()
ClassIdentifierDefault ==
    [kind |-> "ClassIdentifier", word_1 |-> ZeroWord,
     information_class_code |-> 0, packet_class_code |-> 0]

\* pad_bit_count(): ((self.word_1 >> 27) & 0x1F) as u8
pad_bit_count(c) == GetBits16(c.word_1[1], 11, 5)

\* set_pad_bit_count(): self.word_1 & !(0x1F << 27) | ((count as u32) << 27),
\* where the shift drops the bits of count above the fifth
set_pad_bit_count(c, count) ==
    [c EXCEPT !.word_1[1] = PutBits16(@, 11, 5, count % 32)]

\* oui(): self.word_1 & 0xFF_FFFF
oui(c) == Word(GetBits16(c.word_1[1], 0, 8), c.word_1[2])

\* set_oui(): self.word_1 & !(0xFF_FFFF) | oui
set_oui(c, v) ==
    [c EXCEPT !.word_1 = WordOr(Word(PutBits16(@[1], 0, 8, 0), 0), v)]

---------------------------------------------------------------------------
(* The example controllee (examples/nats_control): the Sdr holds two f64   *)
(* values. A value is held as its number of 5 Hz steps, so that the device *)
(* limit 5.0 and the range limits 100e6 and 6e9 are all integers of TLC.   *)

\* send_to_device() fails below 5.0
DeviceMin == 1

\* the bandwidth range 0.0..=100e6
BandwidthMax == 20000000

\* the frequency range 0.0..=6e9
FreqMax == 1200000000

\* Sdr::default()
SdrDefault == [kind |-> "Sdr", tune_freq_hz |-> 0, bandwidth_hz |-> 0]

send_to_device(val) == IF val < DeviceMin THEN "Err" ELSE "Ok"

\* AckResponse::default(), set_param_out_of_range(), set_device_failure()
AckResponseDefault == ZeroWord

set_param_out_of_range(r) == WordSetBit(r, 28)

set_device_failure(r) == WordSetBit(r, 30)

\* the AckResponse of a setter of the Sdr for the value val of a field
\* whose range is 0..=max: the range check, then the device
sdr_ack_response(val, max) ==
    IF send_to_device(val) = "Err"
    THEN set_device_failure(IF val >= 0 /\ val <= max THEN AckResponseDefault
                            ELSE set_param_out_of_range(AckResponseDefault))
    ELSE IF val >= 0 /\ val <= max THEN AckResponseDefault
         ELSE set_param_out_of_range(AckResponseDefault)

\* Ok(()) is None, Err(ack_response) is Some(ack_response)
sdr_result(r) == IF empty(r) THEN None ELSE Some(r)

\* Sdr::set_bandwidth(): the value is stored whenever the device took it
set_bandwidth(sdr, bw_hz) ==
    [sdr |-> IF send_to_device(bw_hz) = "Err" THEN sdr
             ELSE [sdr EXCEPT !.bandwidth_hz = bw_hz],
     err |-> sdr_result(sdr_ack_response(bw_hz, BandwidthMax))]

\* Sdr::set_freq()
set_freq(sdr, freq_hz) ==
    [sdr |-> IF send_to_device(freq_hz) = "Err" THEN sdr
             ELSE [sdr EXCEPT !.tune_freq_hz = freq_hz],
     err |-> sdr_result(sdr_ack_response(freq_hz, FreqMax))]

\* the ACK process_command() returns for the request bits of cam:
\* execution (19), validation (20), state (18), in this order; none of them
\* is no reply. A validation or execution ACK is given the two errors at
\* the Error level, a query ACK the values of the Sdr.
sdr_reply(sdr, cam, bw_err, freq_err) ==
    IF ~(\E b \in {18, 19, 20} : WordBitIsSet(cam, b)) THEN None
    ELSE Some(
        [kind |-> IF WordBitIsSet(cam, 19) THEN "ExecAck"
                  ELSE IF WordBitIsSet(cam, 20) THEN "ValidationAck"
                  ELSE "QueryAck",
         error |-> IsSome(bw_err) \/ IsSome(freq_err),
         ack |-> IF WordBitIsSet(cam, 19) \/ WordBitIsSet(cam, 20)
                 THEN set_ack_field_fn0(
                          set_ack_field_fn0(AckDefault, "Error",
                                            "bandwidth", bw_err),
                          "Error", "rf_ref_freq", freq_err)
                 ELSE AckDefault,
         bandwidth_hz |-> IF WordBitIsSet(cam, 19) \/ WordBitIsSet(cam, 20)
                          THEN None ELSE Some(sdr.bandwidth_hz),
         rf_ref_freq_hz |-> IF WordBitIsSet(cam, 19) \/ WordBitIsSet(cam, 20)
                            THEN None ELSE Some(sdr.tune_freq_hz)])

\* process_command(), after the bandwidth of the control packet was handled
\* with the outcome bw: the frequency, then the reply
process_command_freq(bw, freq_hz, cam) ==
    IF IsSome(freq_hz)
    THEN [sdr |-> set_freq(bw.sdr, freq_hz[1]).sdr,
          reply |-> sdr_reply(set_freq(bw.sdr, freq_hz[1]).sdr, cam, bw.err,
                              set_freq(bw.sdr, freq_hz[1]).err)]
    ELSE [sdr |-> bw.sdr, reply |-> sdr_reply(bw.sdr, cam, bw.err, None)]

\* Sdr::process_command() for a control packet with the fields bw_hz and
\* freq_hz and the ControlAckMode cam
process_command(sdr, bw_hz, freq_hz, cam) ==
    process_command_freq(IF IsSome(bw_hz) THEN set_bandwidth(sdr, bw_hz[1])
                         ELSE [sdr |-> sdr, err |-> None],
                         freq_hz, cam)

---------------------------------------------------------------------------
(* Vrt: the packet-level operations *)

\* the size update_packet_size() computes
update_packet_size(h, p) ==
    1
    + (IF stream_id_included(h) THEN 1 ELSE 0)
    + (IF class_id_included(h) THEN 2 ELSE 0)
    + (IF integer_timestamp_included(h) THEN 1 ELSE 0)
    + (IF fractional_timestamp_included(h) THEN 2 ELSE 0)
    + (IF trailer_included(h) THEN 1 ELSE 0)
    + payload_words(p)

\* Payload::signal_data_mut(): Ok on a signal data payload alone
signal_data_mut(p) == IF p.kind = "SignalData" THEN "Ok" ELSE "SignalDataOnly"

\* the 32-bit words of a byte slice, four bytes a word, big-endian
BytesToWords(bytes) ==
    [i \in 1 .. (Len(bytes) \div 4) |->
        Word(bytes[4 * i - 3] * 256 + bytes[4 * i - 2],
             bytes[4 * i - 1] * 256 + bytes[4 * i])]

\* SignalData::set_payload(): a slice whose length is not a multiple of 4
\* is refused, any other replaces the stored words
signal_data_set_payload(p, bytes) ==
    IF Len(bytes) % 4 # 0
    THEN [payload |-> p, res |-> "PayloadUneven32BitWords"]
    ELSE [payload |-> [p EXCEPT !.data = BytesToWords(bytes)], res |-> "Ok"]

\* set_signal_payload() with update_packet_size() left out
set_signal_payload_without_size_update(h, size, p, bytes) ==
    IF signal_data_mut(p) # "Ok"
    THEN [payload |-> p, packet_size |-> size, res |-> signal_data_mut(p)]
    ELSE [payload |-> signal_data_set_payload(p, bytes).payload,
          packet_size |-> size,
          res |-> signal_data_set_payload(p, bytes).res]

\* set_signal_payload(): signal_data_mut()?, set_payload(payload)?, then
\* update_packet_size(); either ? returns before anything is written
set_signal_payload(h, size, p, bytes) ==
    IF signal_data_mut(p) # "Ok"
    THEN [payload |-> p, packet_size |-> size, res |-> signal_data_mut(p)]
    ELSE IF signal_data_set_payload(p, bytes).res # "Ok"
    THEN [payload |-> p, packet_size |-> size,
          res |-> signal_data_set_payload(p, bytes).res]
    ELSE [payload |-> signal_data_set_payload(p, bytes).payload,
          packet_size |->
              update_packet_size(h, signal_data_set_payload(p, bytes).payload),
          res |-> "Ok"]

\* set_stream_id(): the header after the call
set_stream_id(h, sid) ==
    IF IsSome(sid)
    THEN IF packet_type(h) = SignalDataWithoutStreamId
         THEN set_packet_type(h, SignalData)
         ELSE IF packet_type(h) = ExtensionDataWithoutStreamId
         THEN set_packet_type(h, ExtensionData)
         ELSE h
    ELSE IF packet_type(h) = SignalData
         THEN set_packet_type(h, SignalDataWithoutStreamId)
         ELSE IF packet_type(h) = ExtensionData
         THEN set_packet_type(h, ExtensionDataWithoutStreamId)
         ELSE h

\* set_class_id(): the header after the call (the field alone is stored)
set_class_id(h, cid) == h

\* the test without its second half: None with a kind other than Null passes
timestamp_mode_mismatch_some_only(timestamp, kind, null) ==
    IsSome(timestamp) /\ kind = null

\* the test both timestamp setters make before they store anything
timestamp_mode_mismatch(timestamp, kind, null) ==
    \/ (IsSome(timestamp) /\ kind = null)
    \/ (IsNone(timestamp) /\ kind /= null)

\* set_integer_timestamp() writing the TSI bits before it tests the arguments
set_integer_timestamp_tsi_first(h, cur, timestamp, kind) ==
    IF timestamp_mode_mismatch(timestamp, kind, TsiNull)
    THEN [hword_1 |-> set_tsi(h, kind), timestamp |-> cur,
          res |-> "TimestampModeMismatch"]
    ELSE [hword_1 |-> set_tsi(h, kind), timestamp |-> timestamp, res |-> "Ok"]

\* set_integer_timestamp(): the packet after the call and the Result
set_integer_timestamp(h, cur, timestamp, kind) ==
    IF timestamp_mode_mismatch(timestamp, kind, TsiNull)
    THEN [hword_1 |-> h, timestamp |-> cur, res |-> "TimestampModeMismatch"]
    ELSE [hword_1 |-> set_tsi(h, kind), timestamp |-> timestamp, res |-> "Ok"]

\* set_fractional_timestamp(): the packet after the call and the Result
set_fractional_timestamp(h, cur, timestamp, kind) ==
    IF timestamp_mode_mismatch(timestamp, kind, TsfNull)
    THEN [hword_1 |-> h, timestamp |-> cur, res |-> "TimestampModeMismatch"]
    ELSE [hword_1 |-> set_tsf(h, kind), timestamp |-> timestamp, res |-> "Ok"]

---------------------------------------------------------------------------
(* Serialization.  The derived writer emits every Option that is Some and  *)
(* nothing for None: a `cond` attribute is read by the parser alone.       *)

OptWords(o) == IF IsSome(o) THEN o[1] ELSE <<>>

\* an Option of one word
OptWord(o) == IF IsSome(o) THEN <<o[1]>> ELSE <<>>

\* a Vec of values: every element, in order
RECURSIVE VecWords(_)
VecWords(a) == IF a = <<>> THEN <<>> ELSE Head(a) \o VecWords(Tail(a))

RECURSIVE FieldsWordsFrom(_, _, _)
FieldsWordsFrom(decl, f, i) ==
    IF i > Len(decl) THEN <<>>
    ELSE OptWords(f.val[decl[i][1]]) \o VecWords(f.attr[decl[i][1]])
         \o FieldsWordsFrom(decl, f, i + 1)

\* a fields structure written from its last field to its first
FieldsWords_last_first(n, f) ==
    FieldsWordsFrom([i \in 1 .. Len(CifFieldsDecl(n)) |->
                        CifFieldsDecl(n)[Len(CifFieldsDecl(n)) + 1 - i]], f, 1)

\* a fields structure: each field's value, then its attributes, in the
\* order of declaration
FieldsWords(n, f) == FieldsWordsFrom(CifFieldsDecl(n), f, 1)

Cif0FieldsWords(f) == FieldsWords(0, f)

\* an Option of a fields structure
OptFieldsWords(n, o) == IF IsSome(o) THEN FieldsWords(n, o[1]) ELSE <<>>

\* cif0, cif1, cif2, cif3, cif7, then the fields structures, as Context and
\* Command declare them
CifWords(p) ==
    <<p.cif0>> \o OptWord(p.cif[1]) \o OptWord(p.cif[2]) \o OptWord(p.cif[3])
    \o OptWord(p.cif7)
    \o Cif0FieldsWords(p.cif0_fields)
    \o OptFieldsWords(1, p.cif_fields[1]) \o OptFieldsWords(2, p.cif_fields[2])
    \o OptFieldsWords(3, p.cif_fields[3])

PayloadWords(p) ==
    IF p.kind = "SignalData" THEN p.data
    ELSE IF p.kind = "Context" THEN CifWords(p)
    ELSE <<p.cam, p.message_id>>
         \o OptWords(p.controllee_id) \o OptWords(p.controllee_uuid)
         \o OptWords(p.controller_id) \o OptWords(p.controller_uuid)
         \o CifWords(p)

\* the words of a packet, in the order of the fields of Vrt
Serialize(P) ==
    <<Word(P.hword_1, P.packet_size)>>
    \o OptWords(P.stream_id) \o OptWords(P.class_id)
    \o OptWords(P.integer_timestamp) \o OptWords(P.fractional_timestamp)
    \o PayloadWords(P.payload)
    \o OptWords(P.trailer)

---------------------------------------------------------------------------
(* Parsing.  A reader state is [ok, panic, rest, val]: ok while every read *)
(* so far succeeded, panic once a condition of a field aborted the thread, *)
(* rest the words not yet read and val the value of the last read.         *)

Read(rest, val) == [ok |-> TRUE, panic |-> FALSE, rest |-> rest, val |-> val]

Reader(ws) == Read(ws, None)

Failed == [ok |-> FALSE, panic |-> FALSE, rest |-> <<>>, val |-> None]

\* a panic!() or an unwrap() of no value in a condition the reader evaluates
Panicked == [ok |-> FALSE, panic |-> TRUE, rest |-> <<>>, val |-> None]

\* an Option field with `cond`: n words when cond holds, None otherwise
ReadOpt(st, cond, n) ==
    IF ~st.ok THEN st
    ELSE IF ~cond THEN Read(st.rest, None)
    ELSE IF Len(st.rest) < n THEN Failed
    ELSE Read(SubSeq(st.rest, n + 1, Len(st.rest)), Some(SubSeq(st.rest, 1, n)))

\* a field that is always there, one word
ReadWord(st) ==
    IF ~st.ok THEN st
    ELSE IF Len(st.rest) < 1 THEN Failed
    ELSE Read(Tail(st.rest), Head(st.rest))

\* an Option of one word with `cond`
ReadOptWord(st, cond) ==
    IF ~st.ok THEN st
    ELSE IF ~cond THEN Read(st.rest, None)
    ELSE IF Len(st.rest) < 1 THEN Failed
    ELSE Read(Tail(st.rest), Some(Head(st.rest)))

\* n words of signal data; a count below zero is no count the reader can use
ReadWords(st, n) ==
    IF ~st.ok THEN st
    ELSE IF n < 0 \/ Len(st.rest) < n THEN Failed
    ELSE Read(SubSeq(st.rest, n + 1, Len(st.rest)), SubSeq(st.rest, 1, n))

\* a Vec with `count`: k values of w words each
RECURSIVE ReadVec(_, _, _)
ReadVec(st, k, w) ==
    IF ~st.ok THEN st
    ELSE IF k = 0 THEN Read(st.rest, <<>>)
    ELSE IF Len(st.rest) < w THEN Failed
    ELSE LET r == ReadVec(Read(SubSeq(st.rest, w + 1, Len(st.rest)), <<>>),
                          k - 1, w)
         IN  IF ~r.ok THEN r
             ELSE Read(r.rest, <<SubSeq(st.rest, 1, w)>> \o r.val)

\* the fields of CIF n from the i-th on, under the indicator word w and the
\* CIF7 options: the value when the field's bit is set and CIF7 asks for the
\* current value, num_extra_attrs attributes when the bit is set and there
\* are any.  The getter of a todo_cif_field! panics when its bit is set.
\* st.val is the structure read so far.
RECURSIVE ReadFieldsFrom(_, _, _, _, _)
ReadFieldsFrom(st, n, w, opts, i) ==
    IF ~st.ok \/ i > Len(CifFieldsDecl(n)) THEN st
    ELSE
    LET x == CifFieldsDecl(n)[i][1]
        width == CifFieldsDecl(n)[i][2]
        v == ReadOpt(st, cif_field(n, w, x) /\ opts.current_val, width)
        a == ReadVec(v, IF cif_field(n, w, x) /\ opts.num_extra_attrs > 0
                        THEN opts.num_extra_attrs ELSE 0, width)
    IN  IF x \in CifTodo(n) /\ cif_field(n, w, x) THEN Panicked
        ELSE IF ~a.ok THEN a
        ELSE ReadFieldsFrom(Read(a.rest, [st.val EXCEPT !.val[x] = v.val,
                                                        !.attr[x] = a.val]),
                            n, w, opts, i + 1)

ReadFields(st, n, w, opts) ==
    IF ~st.ok THEN st
    ELSE ReadFieldsFrom(Read(st.rest, CifFieldsDefault(n)), n, w, opts, 1)

\* an Option of a fields structure with `cond`; cif is the Option of the
\* indicator word, which the field conditions unwrap
ReadOptFields(st, cond, n, cif, opts) ==
    IF ~st.ok THEN st
    ELSE IF ~cond THEN Read(st.rest, None)
    ELSE LET r == ReadFields(st, n, cif[1], opts)
         IN  IF ~r.ok THEN r ELSE Read(r.rest, Some(r.val))

\* a CIF0 word the model has fields for: no bit but those of the modelled
\* fields and the enable bits
Cif0Modelled(cif0) ==
    \A b \in AllWordBits :
        WordBitIsSet(cif0, b)
        => b \in {Cif0BandwidthBit, Cif0RfRefFreqBit, Cif0FieldAttributesBit,
                  CifEnabledBit[1], CifEnabledBit[2], CifEnabledBit[3]}

\* the fields of Context, and of Command after its identifiers, in the order
\* of declaration
CifItems ==
    <<"cif0", "cif1", "cif2", "cif3", "cif7",
      "cif0_fields", "cif1_fields", "cif2_fields", "cif3_fields">>

\* the fields of Command in the order of declaration
CommandItems ==
    <<"cam", "message_id", "controllee_id", "controllee_uuid",
      "controller_id", "controller_uuid">> \o CifItems

\* the fields of Vrt after the header in the order of declaration, with
\* those of the Payload variant the packet type of the header selects
VrtItems(h) ==
    <<"stream_id", "class_id", "integer_timestamp", "fractional_timestamp">>
    \o (IF packet_type(h) \in {Context, ExtensionContext} THEN CifItems
        ELSE IF packet_type(h) \in {Command, ExtensionCommand} THEN CommandItems
        ELSE <<"data">>)
    \o <<"trailer">>

\* the words of the Option fields that hold plain words
ItemWidth ==
    [stream_id |-> 1, class_id |-> 2, integer_timestamp |-> 1,
     fractional_timestamp |-> 2, trailer |-> 1,
     controllee_id |-> 1, controllee_uuid |-> 4,
     controller_id |-> 1, controller_uuid |-> 4]

\* the CIF a field of CifItems belongs to
ItemCif ==
    [cif1 |-> 1, cif2 |-> 2, cif3 |-> 3,
     cif1_fields |-> 1, cif2_fields |-> 2, cif3_fields |-> 3]

\* what has been read of a packet: the header and, until it is read, the
\* empty value of every field
Env(h, size) ==
    [h |-> h, size |-> size,
     stream_id |-> None, class_id |-> None, integer_timestamp |-> None,
     fractional_timestamp |-> None, trailer |-> None, data |-> <<>>,
     cam |-> ZeroWord, message_id |-> ZeroWord,
     controllee_id |-> None, controllee_uuid |-> None,
     controller_id |-> None, controller_uuid |-> None,
     cif0 |-> ZeroWord, cif1 |-> None, cif2 |-> None, cif3 |-> None,
     cif7 |-> None, cif0_fields |-> Cif0FieldsDefault,
     cif1_fields |-> None, cif2_fields |-> None, cif3_fields |-> None]

\* the `cond` of field x, over what was read before it
ItemCond(x, e) ==
    CASE x = "stream_id" -> stream_id_included(e.h)
      [] x = "class_id" -> class_id_included(e.h)
      [] x = "integer_timestamp" -> integer_timestamp_included(e.h)
      [] x = "fractional_timestamp" -> fractional_timestamp_included(e.h)
      [] x = "trailer" -> trailer_included(e.h)
      [] x = "controllee_id" ->
            controllee_enabled(e.cam) /\ controllee_id_format(e.cam) = "Id32bit"
      [] x = "controllee_uuid" ->
            controllee_enabled(e.cam) /\ controllee_id_format(e.cam) = "Uuid128bit"
      [] x = "controller_id" ->
            controller_enabled(e.cam) /\ controller_id_format(e.cam) = "Id32bit"
      [] x = "controller_uuid" ->
            controller_enabled(e.cam) /\ controller_id_format(e.cam) = "Uuid128bit"
      [] x \in DOMAIN ItemCif -> cif_enabled(e.cif0, ItemCif[x])
      [] x = "cif7" -> field_attributes_enabled(e.cif0)

\* the read of field x after the reads that gave st, whose val is what was
\* read so far
ReadItemValue(st, x) ==
    CASE x \in {"cam", "message_id", "cif0"} -> ReadWord(st)
      [] x \in DOMAIN ItemWidth -> ReadOpt(st, ItemCond(x, st.val), ItemWidth[x])
      [] x \in {"cif1", "cif2", "cif3", "cif7"} ->
            ReadOptWord(st, ItemCond(x, st.val))
      [] x = "cif0_fields" ->
            ReadFields(st, 0, st.val.cif0, Cif7OptsFrom(st.val.cif7))
      [] x \in {"cif1_fields", "cif2_fields", "cif3_fields"} ->
            ReadOptFields(st, ItemCond(x, st.val), ItemCif[x],
                          st.val[CifItems[ItemCif[x] + 1]],
                          Cif7OptsFrom(st.val.cif7))
      [] x = "data" -> ReadWords(st, payload_size_words(st.val.h, st.val.size))

\* what was read so far with the value r of field x
Store(e, x, r) ==
    IF ~r.ok THEN r
    ELSE IF x = "cif0" /\ ~Cif0Modelled(r.val) THEN Failed
    ELSE Read(r.rest, [e EXCEPT ![x] = r.val])

\* the fields from the i-th on, one after the other
RECURSIVE ReadItems(_, _, _)
ReadItems(st, items, i) ==
    IF ~st.ok \/ i > Len(items) THEN st
    ELSE ReadItems(Store(st.val, items[i], ReadItemValue(st, items[i])),
                   items, i + 1)

\* the Payload variant of what was read
ReadPayload(e) ==
    IF packet_type(e.h) \in {Context, ExtensionContext}
    THEN [kind |-> "Context", cif0 |-> e.cif0,
          cif |-> <<e.cif1, e.cif2, e.cif3>>, cif7 |-> e.cif7,
          cif0_fields |-> e.cif0_fields,
          cif_fields |-> <<e.cif1_fields, e.cif2_fields, e.cif3_fields>>]
    ELSE IF packet_type(e.h) \in {Command, ExtensionCommand}
    THEN [kind |-> "Command", cam |-> e.cam, message_id |-> e.message_id,
          controllee_id |-> e.controllee_id,
          controllee_uuid |-> e.controllee_uuid,
          controller_id |-> e.controller_id,
          controller_uuid |-> e.controller_uuid,
          cif0 |-> e.cif0, cif |-> <<e.cif1, e.cif2, e.cif3>>,
          cif7 |-> e.cif7, cif0_fields |-> e.cif0_fields,
          cif_fields |-> <<e.cif1_fields, e.cif2_fields, e.cif3_fields>>]
    ELSE [kind |-> "SignalData", data |-> e.data]

\* the Result of the reads r
Parsed(r) ==
    IF ~r.ok THEN [ok |-> FALSE, panic |-> r.panic]
    ELSE [ok |-> TRUE, panic |-> FALSE,
          pkt |-> [hword_1 |-> r.val.h, packet_size |-> r.val.size,
                   stream_id |-> r.val.stream_id, class_id |-> r.val.class_id,
                   integer_timestamp |-> r.val.integer_timestamp,
                   fractional_timestamp |-> r.val.fractional_timestamp,
                   payload |-> ReadPayload(r.val), trailer |-> r.val.trailer]]

\* Vrt: the header, then each field under its condition.  The first
\* condition, stream_id_included(), calls packet_type().
Parse(ws) ==
    IF Len(ws) < 1 THEN [ok |-> FALSE, panic |-> FALSE]
    ELSE IF packet_type_panics(ws[1][1]) THEN [ok |-> FALSE, panic |-> TRUE]
    ELSE Parsed(ReadItems(Read(Tail(ws), Env(ws[1][1], ws[1][2])),
                          VrtItems(ws[1][1]), 1))

\* the packet the state holds
Pkt ==
    [hword_1 |-> hword_1, packet_size |-> packet_size,
     stream_id |-> stream_id, class_id |-> class_id,
     integer_timestamp |-> integer_timestamp,
     fractional_timestamp |-> fractional_timestamp,
     payload |-> payload, trailer |-> trailer]

\* parsing the words of P gives P back
RoundTrips(P) ==
    LET r == Parse(Serialize(P)) IN r.ok /\ r.pkt = P

---------------------------------------------------------------------------
(* Inputs *)

\* identifiers and uuids the callers pass: 1 .. MaxId
MaxId == 2

\* stream ids, timestamps and field values the callers pass: 1 .. MaxValue
MaxValue == 1

U32(n) == <<Word(0, n)>>

U64(n) == <<ZeroWord, Word(0, n)>>

U128(n) == <<ZeroWord, ZeroWord, ZeroWord, Word(0, n)>>

IdArgs == {None} \cup {Some(U32(n)) : n \in 1 .. MaxId}

UuidArgs == {None} \cup {Some(U128(n)) : n \in 1 .. MaxId}

StreamIdArgs == {None} \cup {Some(U32(n)) : n \in 1 .. MaxValue}

\* ClassIdentifier::default() is two zero words
ClassIdArgs == {None, Some(<<ZeroWord, ZeroWord>>)}

IntegerTimestampArgs == {None} \cup {Some(U32(n)) : n \in 1 .. MaxValue}

FractionalTimestampArgs == {None} \cup {Some(U64(n)) : n \in 1 .. MaxValue}

BandwidthArgs == {None} \cup {Some(U64(n)) : n \in 1 .. MaxValue}

\* the fields the CIF0 setters are called for, and those of CIF1, CIF2, CIF3
Cif0Args == {"bandwidth", "rf_ref_freq"}

CifArgs == <<{"polarization", "index_list"}, {"bind", "track_id"},
             {"network_id", "age"}>>

\* the words of the type of field x of CIF n
FieldWidth(n, x) ==
    LET decl == CifFieldsDecl(n)
    IN  decl[CHOOSE i \in 1 .. Len(decl) : decl[i][1] = x][2]

\* a value of field x of CIF n: words no other field is given
FieldValue(n, x, k) == [i \in 1 .. FieldWidth(n, x) |-> Word(CifBits(n)[x], k)]

FieldArgs(n, x) ==
    {None} \cup {Some(FieldValue(n, x, k)) : k \in 1 .. MaxValue}

\* the fields the set_<field>_attributes() functions are called for
Cif0AttrArgs == {"bandwidth"}

CifAttrArgs == <<{"polarization"}, {}, {}>>

\* None, an empty Vec, or a Vec of one attribute value
AttrArgs(n, x) ==
    {None, Some(<<>>)} \cup {Some(<<FieldValue(n, x, k)>>) : k \in 1 .. MaxValue}

\* the word with the bits of S set
RECURSIVE WordWithBits(_)
WordWithBits(S) ==
    IF S = {} THEN ZeroWord
    ELSE LET b == CHOOSE b \in S : TRUE
         IN  WordSetBit(WordWithBits(S \ {b}), b)

\* the largest stage value, in 1/128 dB steps, a Gain or a Threshold is
\* given, with the negative values down to its opposite
MaxStage == 3

StageArgs == (0 - MaxStage) .. MaxStage

\* the variants the Spectrum setters are given: every variant without a
\* value, Reserved, and the variants with a value for the values listed
UserDefinedArgs == {127, 128, 255}

SpectrumTypeArgs ==
    {<<n>> : n \in DOMAIN SpectrumTypeIntoU8} \cup {<<"Reserved">>}
    \cup {<<"UserDefined", v>> : v \in UserDefinedArgs}

AveragingTypeArgs ==
    {<<n>> : n \in DOMAIN AveragingTypeIntoU8} \cup {<<"Reserved">>}

WindowTimeDeltaInterpretationArgs ==
    {<<n>> : n \in DOMAIN WindowTimeDeltaInterpretationIntoU8}
    \cup {<<"Reserved">>}

OtherArgs == {5, 50, 100, 255}

WindowTypeArgs ==
    {<<n>> : n \in DOMAIN WindowTypeIntoU8} \cup {<<"Reserved">>}
    \cup {<<"Other", v>> : v \in OtherArgs}

\* the pad bit counts (u8) and the OUIs (u32) a ClassIdentifier is given:
\* OUIs within 24 bits, and with bit 24, bit 26, bit 27 or every bit set
PadBitCountArgs == {0, 1, 16, 31, 255}

OuiArgs ==
    {ZeroWord, Word(0, 1), Word(1, 0), Word(255, 65535), Word(256, 0),
     Word(1024, 0), Word(2048, 1), Word(65535, 65535)}

\* the Indicators values of each family
IndicatorsFamilies == {"SignalData", "Context", "Command"}

IndicatorsArgs(family) ==
    IF family = "SignalData"
    THEN {[family |-> "SignalData", trailer_included |-> a,
           not_a_vita490_packet |-> b, signal_spectral_data |-> c] :
              a \in BOOLEAN, b \in BOOLEAN, c \in BOOLEAN}
    ELSE IF family = "Context"
    THEN {[family |-> "Context", not_a_vita490_packet |-> b,
           timestamp_mode |-> c] : b \in BOOLEAN, c \in BOOLEAN}
    ELSE {[family |-> "Command", ack_packet |-> a,
           cancellation_packet |-> c] : a \in BOOLEAN, c \in BOOLEAN}

\* the largest packet size of a header read from bytes
MaxSize == 3

\* the TSI and TSF codes of the headers read from bytes
HeaderTsiArgs == {TsiNull, TsiUtc}

HeaderTsfArgs == {TsfNull, TsfRealTimePs}

\* the responses set_<field>(level, response) of an ACK is given: None, or
\* an AckResponse with field_not_executed (31) or device_failure (30) set
AckResponseArgs ==
    {None} \cup {Some(WordWithBits({32 - k})) : k \in 1 .. MaxValue}

\* the values the public cif7 field is given: None, or a CIF7 word with any
\* of current (31), average (30) and median (29) set
Cif7Args == {None} \cup {Some(WordWithBits(S)) : S \in SUBSET {31, 30, 29}}

\* the values of the packet type bits of a header that is parsed
PacketTypeBits == 0 .. 15

\* a call: the operation, its argument(s) and the Result it returned
Call(op, arg, res) == [op |-> op, arg |-> arg, res |-> res]

---------------------------------------------------------------------------
(* Constructors: every one stores Some(0) as the stream id and ends with   *)
(* update_packet_size()                                                    *)

NewPacket(name, h, p) ==
    /\ hword_1 = h
    /\ packet_size = update_packet_size(h, p)
    /\ stream_id = Some(U32(0))
    /\ class_id = None
    /\ integer_timestamp = None
    /\ fractional_timestamp = None
    /\ payload = p
    /\ trailer = None
    /\ last = Call(name, None, "Ok")
    /\ calls = 0

new_signal_data_packet ==
    NewPacket("new_signal_data_packet", new_signal_data_header, SignalDataNew)

new_context_packet ==
    NewPacket("new_context_packet", new_context_header, ContextDefault)

new_control_packet ==
    NewPacket("new_control_packet", new_control_header, new_command)

new_cancellation_packet ==
    NewPacket("new_cancellation_packet", new_cancellation_header, new_command)

new_validation_ack_packet ==
    NewPacket("new_validation_ack_packet", new_ack_header, new_command)

new_exec_ack_packet ==
    NewPacket("new_exec_ack_packet", new_ack_header, new_command)

new_query_ack_packet ==
    NewPacket("new_query_ack_packet", new_ack_header, new_command)

---------------------------------------------------------------------------
(* Actions: one per public operation *)

HeaderVars == <<hword_1, packet_size>>

PrologueVars == <<stream_id, class_id, integer_timestamp, fractional_timestamp>>

SetStreamId ==
    \E sid \in StreamIdArgs :
        /\ stream_id' = sid
        /\ hword_1' = set_stream_id(hword_1, sid)
        /\ last' = Call("set_stream_id", sid, "Ok")
        /\ UNCHANGED <<packet_size, class_id, integer_timestamp,
                       fractional_timestamp, payload, trailer>>

SetClassId ==
    \E cid \in ClassIdArgs :
        /\ class_id' = cid
        /\ hword_1' = set_class_id(hword_1, cid)
        /\ last' = Call("set_class_id", cid, "Ok")
        /\ UNCHANGED <<packet_size, stream_id, integer_timestamp,
                       fractional_timestamp, payload, trailer>>

SetIntegerTimestamp ==
    \E ts \in IntegerTimestampArgs, kind \in TsiKinds :
        LET r == set_integer_timestamp(hword_1, integer_timestamp, ts, kind)
        IN  /\ hword_1' = r.hword_1
            /\ integer_timestamp' = r.timestamp
            /\ last' = Call("set_integer_timestamp", <<ts, kind>>, r.res)
            /\ UNCHANGED <<packet_size, stream_id, class_id,
                           fractional_timestamp, payload, trailer>>

SetFractionalTimestamp ==
    \E ts \in FractionalTimestampArgs, kind \in TsfKinds :
        LET r == set_fractional_timestamp(hword_1, fractional_timestamp, ts, kind)
        IN  /\ hword_1' = r.hword_1
            /\ fractional_timestamp' = r.timestamp
            /\ last' = Call("set_fractional_timestamp", <<ts, kind>>, r.res)
            /\ UNCHANGED <<packet_size, stream_id, class_id,
                           integer_timestamp, payload, trailer>>

UpdatePacketSize ==
    /\ packet_size' = update_packet_size(hword_1, payload)
    /\ last' = Call("update_packet_size", None, "Ok")
    /\ UNCHANGED <<hword_1, PrologueVars, payload, trailer>>

\* byte slices of every length up to MaxPayloadBytes, in two fillings
MaxPayloadBytes == 8

PayloadFillings == {1, 37}

SignalPayloadArgs ==
    {[i \in 1 .. n |-> (i * k) % 256] :
        n \in 0 .. MaxPayloadBytes, k \in PayloadFillings}

SetSignalPayload ==
    \E bytes \in SignalPayloadArgs :
        \E r \in {set_signal_payload(hword_1, packet_size, payload, bytes)} :
            /\ payload' = r.payload
            /\ packet_size' = r.packet_size
            /\ last' = Call("set_signal_payload", <<bytes>>, r.res)
            /\ UNCHANGED <<hword_1, PrologueVars, trailer>>

\* the f64 values given to the Sdr: below zero, below the device limit, the
\* device limit, and the first value above each range
SdrArgs == {0 - 1, 0, DeviceMin, BandwidthMax + 1, FreqMax + 1}

\* the ControlAckMode of a control packet: no request, an execution ACK, a
\* query ACK, and a validation with a query ACK
SdrCamArgs == {WordWithBits(S) : S \in {{}, {19}, {18}, {20, 18}}}

\* Sdr::set_bandwidth()
SdrSetBandwidth ==
    /\ payload.kind = "Sdr"
    /\ \E v \in SdrArgs :
           /\ payload' = set_bandwidth(payload, v).sdr
           /\ last' = Call("set_bandwidth", <<v>>, set_bandwidth(payload, v).err)
           /\ UNCHANGED <<HeaderVars, PrologueVars, trailer, calls>>

\* Sdr::set_freq()
SdrSetFreq ==
    /\ payload.kind = "Sdr"
    /\ \E v \in SdrArgs :
           /\ payload' = set_freq(payload, v).sdr
           /\ last' = Call("set_freq", <<v>>, set_freq(payload, v).err)
           /\ UNCHANGED <<HeaderVars, PrologueVars, trailer, calls>>

\* Sdr::process_command()
ProcessCommand ==
    /\ payload.kind = "Sdr"
    /\ \E bw \in {None} \cup {Some(v) : v \in SdrArgs},
          fr \in {None} \cup {Some(v) : v \in SdrArgs}, cam \in SdrCamArgs :
         \E r \in {process_command(payload, bw, fr, cam)} :
           /\ payload' = r.sdr
           /\ last' = Call("process_command", <<bw, fr, cam>>, r.reply)
           /\ UNCHANGED <<HeaderVars, PrologueVars, trailer, calls>>

\* payload_mut().command_mut() succeeds on a Command payload only
CommandCall(op, arg, r) ==
    /\ payload' = r.cmd
    /\ last' = Call(op, arg, r.res)
    /\ UNCHANGED <<HeaderVars, PrologueVars, trailer>>

SetControlleeId ==
    /\ payload.kind = "Command"
    /\ \E id \in IdArgs :
           CommandCall("set_controllee_id", id, set_controllee_id(payload, id))

SetControllerId ==
    /\ payload.kind = "Command"
    /\ \E id \in IdArgs :
           CommandCall("set_controller_id", id, set_controller_id(payload, id))

SetControlleeUuid ==
    /\ payload.kind = "Command"
    /\ \E uuid \in UuidArgs :
           CommandCall("set_controllee_uuid", uuid, set_controllee_uuid(payload, uuid))

SetControllerUuid ==
    /\ payload.kind = "Command"
    /\ \E uuid \in UuidArgs :
           CommandCall("set_controller_uuid", uuid, set_controller_uuid(payload, uuid))

\* set_cam() with a copy of the current CAM on which one of the request
\* flags was set or unset (cam(), set_execution() / unset_error(), set_cam())
SetCam ==
    /\ payload.kind = "Command"
    /\ \E b \in CamFlagBits :
           LET mode == IF WordBitIsSet(payload.cam, b)
                       THEN WordUnsetBit(payload.cam, b)
                       ELSE WordSetBit(payload.cam, b)
           IN  /\ payload' = set_cam(payload, mode)
               /\ last' = Call("set_cam", <<b>>, "Ok")
               /\ UNCHANGED <<HeaderVars, PrologueVars, trailer>>

\* the CIF0 manipulators exist on Context and Command payloads
SetBandwidthHz ==
    /\ payload.kind \in {"Context", "Command"}
    /\ \E v \in BandwidthArgs :
           /\ payload' = set_bandwidth_hz(payload, v)
           /\ last' = Call("set_bandwidth_hz", v, "Ok")
           /\ UNCHANGED <<HeaderVars, PrologueVars, trailer>>

\* set_<field>() of a CIF0 field (set_bandwidth_hz(), set_rf_ref_freq_hz())
SetCif0Field ==
    /\ payload.kind \in {"Context", "Command"}
    /\ \E x \in Cif0Args : \E v \in FieldArgs(0, x) :
           /\ payload' = set_fn0(payload, x, v)
           /\ last' = Call("set_field", <<0, x, v>>, "Ok")
           /\ UNCHANGED <<HeaderVars, PrologueVars, trailer>>

\* set_<field>() of a CIF1, CIF2 or CIF3 field
SetCifField ==
    /\ payload.kind \in {"Context", "Command"}
    /\ \E n \in 1 .. 3 : \E x \in CifArgs[n] : \E v \in FieldArgs(n, x) :
           /\ payload' = set_fn(payload, n, x, v)
           /\ last' = Call("set_field", <<n, x, v>>, "Ok")
           /\ UNCHANGED <<HeaderVars, PrologueVars, trailer>>

\* set_<field>_attributes() of a CIF0 field
SetCif0FieldAttributes ==
    /\ payload.kind \in {"Context", "Command"}
    /\ \E x \in Cif0AttrArgs : \E a \in AttrArgs(0, x) :
           /\ payload' = set_attr_fn0(payload, x, a)
           /\ last' = Call("set_field_attributes", <<0, x, a>>, "Ok")
           /\ UNCHANGED <<HeaderVars, PrologueVars, trailer>>

\* set_<field>_attributes() of a CIF1, CIF2 or CIF3 field
SetCifFieldAttributes ==
    /\ payload.kind \in {"Context", "Command"}
    /\ \E n \in 1 .. 3 : \E x \in CifAttrArgs[n] : \E a \in AttrArgs(n, x) :
           /\ payload' = set_attr_fn(payload, n, x, a)
           /\ last' = Call("set_field_attributes", <<n, x, a>>, "Ok")
           /\ UNCHANGED <<HeaderVars, PrologueVars, trailer>>

\* an assignment to the public field cif7 of a Context or a Command
SetCif7 ==
    /\ payload.kind \in {"Context", "Command"}
    /\ \E c \in Cif7Args :
           /\ payload' = [payload EXCEPT !.cif7 = c]
           /\ last' = Call("set_cif7", c, "Ok")
           /\ UNCHANGED <<HeaderVars, PrologueVars, trailer>>

\* Vrt::from_bytes() / try_from() on the bytes of the packet, with packet
\* type bits t in the header: the Result is Ok with the packet parsed, which
\* the state then holds, or Err; "panic" is a parse that aborted the thread
ParseBytes ==
    \E t \in PacketTypeBits :
        \E r \in {Parse(Serialize([Pkt EXCEPT !.hword_1 = PutBits16(@, 12, 4, t)]))} :
            /\ last' = Call("from_bytes", <<t>>,
                            IF r.panic THEN "panic"
                            ELSE IF r.ok THEN "Ok" ELSE "Err")
            /\ IF r.ok
               THEN /\ hword_1' = r.pkt.hword_1
                    /\ packet_size' = r.pkt.packet_size
                    /\ stream_id' = r.pkt.stream_id
                    /\ class_id' = r.pkt.class_id
                    /\ integer_timestamp' = r.pkt.integer_timestamp
                    /\ fractional_timestamp' = r.pkt.fractional_timestamp
                    /\ payload' = r.pkt.payload
                    /\ trailer' = r.pkt.trailer
               ELSE UNCHANGED <<HeaderVars, PrologueVars, payload, trailer>>

\* set_<field>(level, response) of a CIF0 field on the Ack of a validation
\* or an execution ACK packet
SetAckCif0Field ==
    /\ payload.kind = "Ack"
    /\ \E level \in AckLevel : \E x \in Cif0Args : \E r \in AckResponseArgs :
           /\ payload' = set_ack_field_fn0(payload, level, x, r)
           /\ last' = Call("set_ack_field", <<0, x, level, r>>, "Ok")
           /\ UNCHANGED <<HeaderVars, PrologueVars, trailer>>

\* set_<field>(level, response) of a CIF1, CIF2 or CIF3 field on the Ack
SetAckCifField ==
    /\ payload.kind = "Ack"
    /\ \E level \in AckLevel : \E n \in 1 .. 3 :
         \E x \in CifArgs[n] : \E r \in AckResponseArgs :
           /\ payload' = set_ack_field_fn(payload, level, n, x, r)
           /\ last' = Call("set_ack_field", <<n, x, level, r>>, "Ok")
           /\ UNCHANGED <<HeaderVars, PrologueVars, trailer>>

\* PacketHeader::set_indicators()
HeaderSetIndicators ==
    \E f \in IndicatorsFamilies : \E i \in IndicatorsArgs(f) :
        /\ hword_1' = set_indicators(hword_1, i)
        /\ last' = Call("set_indicators", <<i>>, "Ok")
        /\ UNCHANGED <<packet_size, PrologueVars, payload, trailer, calls>>

\* the three payload predicates of the header's packet type
HasPayload ==
    /\ last' = Call("has_payload", <<packet_type(hword_1)>>,
                    <<has_signal_data_payload(packet_type(hword_1)),
                      has_context_payload(packet_type(hword_1)),
                      has_command_payload(packet_type(hword_1))>>)
    /\ UNCHANGED <<HeaderVars, PrologueVars, payload, trailer, calls>>

\* PacketHeader::payload_size_words()
PayloadSizeWords ==
    \E r \in payload_size_words_call(hword_1, packet_size) :
        /\ last' = Call("payload_size_words", <<>>, r)
        /\ UNCHANGED <<HeaderVars, PrologueVars, payload, trailer, calls>>

\* Gain::new() / Threshold::new(): a new value in place of the one held
StageNew ==
    /\ payload.kind \in {"Gain", "Threshold"}
    /\ \E a \in StageArgs, b \in StageArgs :
           /\ payload' = [payload EXCEPT !.word = stage_new(a, b)]
           /\ last' = Call("new", <<a, b>>, "Ok")
           /\ UNCHANGED <<HeaderVars, PrologueVars, trailer, calls>>

\* Gain::set_stage_1_gain_db()
SetStage1GainDb ==
    /\ payload.kind = "Gain"
    /\ \E x \in StageArgs :
           /\ payload' = [payload EXCEPT !.word = set_stage_1_gain_db(@, x)]
           /\ last' = Call("set_stage_1", <<x>>, "Ok")
           /\ UNCHANGED <<HeaderVars, PrologueVars, trailer, calls>>

\* Gain::set_stage_2_gain_db()
SetStage2GainDb ==
    /\ payload.kind = "Gain"
    /\ \E x \in StageArgs :
           /\ payload' = [payload EXCEPT !.word = set_stage_2_gain_db(@, x)]
           /\ last' = Call("set_stage_2", <<x>>, "Ok")
           /\ UNCHANGED <<HeaderVars, PrologueVars, trailer, calls>>

\* Threshold::set_stage_1_threshold_db()
SetStage1ThresholdDb ==
    /\ payload.kind = "Threshold"
    /\ \E x \in StageArgs :
           /\ payload' = [payload EXCEPT
                             !.word = set_stage_1_threshold_db(@, x)]
           /\ last' = Call("set_stage_1", <<x>>, "Ok")
           /\ UNCHANGED <<HeaderVars, PrologueVars, trailer, calls>>

\* Threshold::set_stage_2_threshold_db()
SetStage2ThresholdDb ==
    /\ payload.kind = "Threshold"
    /\ \E x \in StageArgs :
           /\ payload' = [payload EXCEPT
                             !.word = set_stage_2_threshold_db(@, x)]
           /\ last' = Call("set_stage_2", <<x>>, "Ok")
           /\ UNCHANGED <<HeaderVars, PrologueVars, trailer, calls>>

\* Spectrum::set_spectrum_type()
SetSpectrumType ==
    /\ payload.kind = "Spectrum"
    /\ \E t \in SpectrumTypeArgs :
           /\ payload' = set_spectrum_type(payload, t).sp
           /\ last' = Call("set_spectrum_type", <<t>>,
                           set_spectrum_type(payload, t).res)
           /\ UNCHANGED <<HeaderVars, PrologueVars, trailer, calls>>

\* Spectrum::set_averaging_type()
SetAveragingType ==
    /\ payload.kind = "Spectrum"
    /\ \E t \in AveragingTypeArgs :
           /\ payload' = set_averaging_type(payload, t).sp
           /\ last' = Call("set_averaging_type", <<t>>,
                           set_averaging_type(payload, t).res)
           /\ UNCHANGED <<HeaderVars, PrologueVars, trailer, calls>>

\* Spectrum::set_window_time_delta_interpretation()
SetWindowTimeDeltaInterpretation ==
    /\ payload.kind = "Spectrum"
    /\ \E t \in WindowTimeDeltaInterpretationArgs :
           /\ payload' = set_window_time_delta_interpretation(payload, t).sp
           /\ last' = Call("set_window_time_delta_interpretation", <<t>>,
                           set_window_time_delta_interpretation(payload, t).res)
           /\ UNCHANGED <<HeaderVars, PrologueVars, trailer, calls>>

\* Spectrum::set_window_type()
SetWindowType ==
    /\ payload.kind = "Spectrum"
    /\ \E w \in WindowTypeArgs :
           /\ payload' = set_window_type(payload, w).sp
           /\ last' = Call("set_window_type", <<w>>,
                           set_window_type(payload, w).res)
           /\ UNCHANGED <<HeaderVars, PrologueVars, trailer, calls>>

\* ClassIdentifier::set_pad_bit_count()
SetPadBitCount ==
    /\ payload.kind = "ClassIdentifier"
    /\ \E count \in PadBitCountArgs :
           /\ payload' = set_pad_bit_count(payload, count)
           /\ last' = Call("set_pad_bit_count", <<count>>, "Ok")
           /\ UNCHANGED <<HeaderVars, PrologueVars, trailer, calls>>

\* ClassIdentifier::set_oui()
SetOui ==
    /\ payload.kind = "ClassIdentifier"
    /\ \E v \in OuiArgs :
           /\ payload' = set_oui(payload, v)
           /\ last' = Call("set_oui", <<v>>, "Ok")
           /\ UNCHANGED <<HeaderVars, PrologueVars, trailer, calls>>

---------------------------------------------------------------------------
(* Specifications *)

\* the number of calls a bounded run makes on one packet
MaxCalls == 3

\* one more call of a bounded run
Counted == calls < MaxCalls /\ calls' = calls + 1

\* a Command inside a new control packet, under its identifier setters
InitCommand == new_control_packet

NextCommand ==
    \/ SetControlleeId /\ UNCHANGED calls
    \/ SetControllerId /\ UNCHANGED calls
    \/ SetControlleeUuid /\ UNCHANGED calls
    \/ SetControllerUuid /\ UNCHANGED calls
    \/ SetCam /\ UNCHANGED calls

SpecCommand == InitCommand /\ [][NextCommand]_vars

\* a packet from any constructor, under the packet-level setters
Init ==
    \/ new_signal_data_packet
    \/ new_context_packet
    \/ new_control_packet
    \/ new_cancellation_packet
    \/ new_validation_ack_packet
    \/ new_exec_ack_packet
    \/ new_query_ack_packet

NextVrt ==
    \/ SetStreamId /\ UNCHANGED calls
    \/ SetClassId /\ UNCHANGED calls
    \/ SetIntegerTimestamp /\ UNCHANGED calls
    \/ SetFractionalTimestamp /\ UNCHANGED calls
    \/ UpdatePacketSize /\ UNCHANGED calls

SpecVrt == Init /\ [][NextVrt]_vars

\* a packet from any constructor, under at most MaxCalls calls of any setter
Next ==
    \/ Counted /\ SetStreamId
    \/ Counted /\ SetClassId
    \/ Counted /\ SetIntegerTimestamp
    \/ Counted /\ SetFractionalTimestamp
    \/ Counted /\ UpdatePacketSize
    \/ Counted /\ SetControlleeId
    \/ Counted /\ SetControllerId
    \/ Counted /\ SetControlleeUuid
    \/ Counted /\ SetControllerUuid
    \/ Counted /\ SetCam
    \/ Counted /\ SetBandwidthHz

Spec == Init /\ [][Next]_vars

\* a context or a control packet under at most MaxCalls calls of the
\* set_<field>() functions of the CIF manipulators
InitCif == new_context_packet \/ new_control_packet

NextCif ==
    \/ Counted /\ SetCif0Field
    \/ Counted /\ SetCifField

SpecCif == InitCif /\ [][NextCif]_vars

\* the same packets under the set_<field>() and the
\* set_<field>_attributes() functions
NextAttr ==
    \/ Counted /\ SetCif0Field
    \/ Counted /\ SetCifField
    \/ Counted /\ SetCif0FieldAttributes
    \/ Counted /\ SetCifFieldAttributes

SpecAttr == InitCif /\ [][NextAttr]_vars

\* the number of calls a run makes before and with a parse
MaxParseCalls == 2

\* a context or a control packet whose bytes are parsed after at most
\* MaxParseCalls - 1 calls on it
NextParse ==
    \/ calls < MaxParseCalls /\ calls' = calls + 1 /\ SetCifField
    \/ calls < MaxParseCalls /\ calls' = calls + 1 /\ SetCif7
    \/ calls < MaxParseCalls /\ calls' = calls + 1 /\ ParseBytes

SpecParse == InitCif /\ [][NextParse]_vars

\* the number of set_<field>() calls a run makes on one Ack
MaxAckCalls == 3

\* the Ack of a new validation or execution ACK packet, which
\* validation_ack_mut() / exec_ack_mut() give: the state holds it as the
\* payload, and the packet around it stays as the constructor left it
InitAck ==
    /\ hword_1 = new_ack_header
    /\ packet_size = update_packet_size(new_ack_header, new_command)
    /\ stream_id = Some(U32(0))
    /\ class_id = None
    /\ integer_timestamp = None
    /\ fractional_timestamp = None
    /\ payload = AckDefault
    /\ trailer = None
    /\ \E name \in {"new_validation_ack_packet", "new_exec_ack_packet"} :
           last = Call(name, None, "Ok")
    /\ calls = 0

NextAck ==
    \/ calls < MaxAckCalls /\ calls' = calls + 1 /\ SetAckCif0Field
    \/ calls < MaxAckCalls /\ calls' = calls + 1 /\ SetAckCifField

SpecAck == InitAck /\ [][NextAck]_vars

\* a PacketHeader read from bytes: any of the eight packet types, any
\* class id flag and indicator bits, a TSI and a TSF code, packet count 0
\* and a packet size up to MaxSize; the state holds the header alone
InitHeader ==
    /\ \E t \in PacketTypes, c \in BOOLEAN, i \in 0 .. 7,
          ti \in HeaderTsiArgs, tf \in HeaderTsfArgs :
           hword_1 = set_tsf(set_tsi(PutBits16(
                         set_class_id_included(set_packet_type(0, t), c),
                         8, 3, i), ti), tf)
    /\ packet_size \in 0 .. MaxSize
    /\ stream_id = None
    /\ class_id = None
    /\ integer_timestamp = None
    /\ fractional_timestamp = None
    /\ payload = SignalDataNew
    /\ trailer = None
    /\ last = Call("from_bytes", None, "Ok")
    /\ calls = 0

NextHeader ==
    \/ HeaderSetIndicators
    \/ HasPayload
    \/ PayloadSizeWords

SpecHeader == InitHeader /\ [][NextHeader]_vars

\* a Gain or a Threshold, from its Default (the word 0), under new() and
\* the stage setters; the state holds the value alone, as the payload
InitStage ==
    /\ hword_1 = 0
    /\ packet_size = 0
    /\ stream_id = None
    /\ class_id = None
    /\ integer_timestamp = None
    /\ fractional_timestamp = None
    /\ \E k \in {"Gain", "Threshold"} : payload = [kind |-> k, word |-> ZeroWord]
    /\ trailer = None
    /\ last = Call("default", None, "Ok")
    /\ calls = 0

NextStage ==
    \/ StageNew
    \/ SetStage1GainDb
    \/ SetStage2GainDb
    \/ SetStage1ThresholdDb
    \/ SetStage2ThresholdDb

SpecStage == InitStage /\ [][NextStage]_vars

\* a Spectrum, from Spectrum::new(); the state holds it alone, as the
\* payload
InitSpectrum ==
    /\ hword_1 = 0
    /\ packet_size = 0
    /\ stream_id = None
    /\ class_id = None
    /\ integer_timestamp = None
    /\ fractional_timestamp = None
    /\ payload = SpectrumDefault
    /\ trailer = None
    /\ last = Call("new", None, "Ok")
    /\ calls = 0

\* the setters of the three parts of the spectrum-type word
NextSpectrum ==
    \/ SetSpectrumType
    \/ SetAveragingType
    \/ SetWindowTimeDeltaInterpretation

SpecSpectrum == InitSpectrum /\ [][NextSpectrum]_vars

\* the setter of the window type, with one setter of the other word
NextWindow ==
    \/ SetWindowType
    \/ SetWindowTimeDeltaInterpretation

SpecWindow == InitSpectrum /\ [][NextWindow]_vars

\* a ClassIdentifier, from its Default; the state holds it alone, as the
\* payload
InitClassIdentifier ==
    /\ hword_1 = 0
    /\ packet_size = 0
    /\ stream_id = None
    /\ class_id = None
    /\ integer_timestamp = None
    /\ fractional_timestamp = None
    /\ payload = ClassIdentifierDefault
    /\ trailer = None
    /\ last = Call("default", None, "Ok")
    /\ calls = 0

NextClassIdentifier ==
    \/ SetPadBitCount
    \/ SetOui

SpecClassIdentifier == InitClassIdentifier /\ [][NextClassIdentifier]_vars

\* a packet from any constructor, under at most MaxCalls calls of
\* set_signal_payload() and of the prologue setters that move the size
NextSignal ==
    \/ Counted /\ SetSignalPayload
    \/ Counted /\ SetStreamId
    \/ Counted /\ SetIntegerTimestamp
    \/ Counted /\ UpdatePacketSize

SpecSignal == Init /\ [][NextSignal]_vars

\* the Sdr of the example controllee, from Sdr::default(), under its two
\* setters and process_command(); the state holds the Sdr alone
InitSdr ==
    /\ hword_1 = 0
    /\ packet_size = 0
    /\ stream_id = None
    /\ class_id = None
    /\ integer_timestamp = None
    /\ fractional_timestamp = None
    /\ payload = SdrDefault
    /\ trailer = None
    /\ last = Call("default", None, None)
    /\ calls = 0

NextSdr ==
    \/ SdrSetBandwidth
    \/ SdrSetFreq
    \/ ProcessCommand

SpecSdr == InitSdr /\ [][NextSdr]_vars

---------------------------------------------------------------------------
(* Properties *)

\* the constructors of Vrt
Constructors == {"new_signal_data_packet", "new_context_packet",
                 "new_control_packet", "new_cancellation_packet",
                 "new_validation_ack_packet", "new_exec_ack_packet",
                 "new_query_ack_packet"}

\* the setters that return a Result
Fallible == {"set_integer_timestamp", "set_fractional_timestamp",
             "set_controllee_id", "set_controller_id",
             "set_controllee_uuid", "set_controller_uuid"}

\* C1: a packet built by a constructor and setter calls, then
\* update_packet_size, parses back from its own words to an equal packet.
C1_RoundTrip == last.op = "update_packet_size" => RoundTrips(Pkt)

\* the two sides of a Command, with the CAM bits of each
Sides == {"controllee", "controller"}

side_id(c, side) ==
    IF side = "controllee" THEN c.controllee_id ELSE c.controller_id

side_uuid(c, side) ==
    IF side = "controllee" THEN c.controllee_uuid ELSE c.controller_uuid

side_enabled(cam, side) ==
    IF side = "controllee" THEN controllee_enabled(cam) ELSE controller_enabled(cam)

side_id_format(cam, side) ==
    IF side = "controllee" THEN controllee_id_format(cam)
    ELSE controller_id_format(cam)

\* the enable bit and the id-format bit of a side
side_bits(side) == IF side = "controllee" THEN {31, 30} ELSE {29, 28}

id_setter(side) ==
    IF side = "controllee" THEN "set_controllee_id" ELSE "set_controller_id"

uuid_setter(side) ==
    IF side = "controllee" THEN "set_controllee_uuid" ELSE "set_controller_uuid"

\* C2: on each side of a Command at most one of id and uuid is Some, after
\* any sequence of calls to the four identifier setters.
C2_IdUuidExclusion ==
    payload.kind = "Command" =>
        \A side \in Sides :
            ~(IsSome(side_id(payload, side)) /\ IsSome(side_uuid(payload, side)))

\* C3: a call set_<side>_uuid(Some(u)) made while the id of that side is
\* Some returns TriedUuidWhenIdSet and changes nothing of the Command: the
\* id, the uuid and every CAM bit are as before.
C3_UuidWhenIdSetFails ==
    [][\A side \in Sides :
           (/\ last'.op = uuid_setter(side)
            /\ IsSome(last'.arg)
            /\ IsSome(side_id(payload, side))
            /\ IsNone(side_uuid(payload, side)))
           => (/\ last'.res = "TriedUuidWhenIdSet"
               /\ payload' = payload)]_vars

\* C4: the CAM mirrors the identifiers: on each side the enable bit is set
\* iff the id or the uuid is Some, the format is Id32bit when the id is Some
\* and Uuid128bit when the uuid is Some.
C4_CamMirrorsIdentifiers ==
    payload.kind = "Command" =>
        \A side \in Sides :
            /\ side_enabled(payload.cam, side)
                   = (IsSome(side_id(payload, side))
                      \/ IsSome(side_uuid(payload, side)))
            /\ IsSome(side_id(payload, side))
                   => side_id_format(payload.cam, side) = "Id32bit"
            /\ IsSome(side_uuid(payload, side))
                   => side_id_format(payload.cam, side) = "Uuid128bit"

\* C5: a successful call of an identifier setter with None leaves the enable
\* bit and the id-format bit of that side both 0 and every other CAM bit as
\* it was.
C5_NoneClearsBothBits ==
    [][\A side \in Sides :
           (/\ last'.op \in {id_setter(side), uuid_setter(side)}
            /\ IsNone(last'.arg)
            /\ last'.res = "Ok")
           => (/\ \A b \in side_bits(side) : ~WordBitIsSet(payload'.cam, b)
               /\ \A b \in AllWordBits \ side_bits(side) :
                      WordBitIsSet(payload'.cam, b) = WordBitIsSet(payload.cam, b))]_vars

\* C6: a call set_<side>_id(x), x Some or None, made while the uuid of that
\* side is Some returns TriedIdWhenUuidSet and leaves the id, the uuid and
\* the CAM as they were.
C6_IdWhenUuidSetFails ==
    [][\A side \in Sides :
           (/\ last'.op = id_setter(side)
            /\ IsSome(side_uuid(payload, side)))
           => (/\ last'.res = "TriedIdWhenUuidSet"
               /\ side_id(payload', side) = side_id(payload, side)
               /\ side_uuid(payload', side) = side_uuid(payload, side)
               /\ payload'.cam = payload.cam)]_vars

\* a refused set_controllee_id(None) on a Command whose controllee uuid is set
C6_Witness ==
    /\ last.op = "set_controllee_id"
    /\ IsNone(last.arg)
    /\ last.res = "TriedIdWhenUuidSet"
    /\ IsSome(payload.controllee_uuid)
    /\ controllee_enabled(payload.cam)

\* C7: the integer timestamp is Some iff the TSI of the header is not Null,
\* and the fractional timestamp is Some iff the TSF is not Null, whatever
\* timestamp calls were made, accepted or refused.
C7_TimestampCoherence ==
    /\ IsSome(integer_timestamp) = (tsi(hword_1) /= TsiNull)
    /\ IsSome(fractional_timestamp) = (tsf(hword_1) /= TsfNull)

\* the fractional timestamp was just removed from a packet that keeps its
\* integer timestamp
C7_Witness ==
    /\ last.op = "set_fractional_timestamp"
    /\ last.arg = <<None, TsfNull>>
    /\ last.res = "Ok"
    /\ IsSome(integer_timestamp)
    /\ tsi(hword_1) = TsiGps
    /\ tsf(hword_1) = TsfNull

\* a value and a kind that disagree
Disagree(timestamp, kind, null) == IsSome(timestamp) = (kind = null)

\* C8: a timestamp setter whose value and kind disagree returns
\* TimestampModeMismatch and leaves the stored timestamp and the header as
\* they were; set_integer_timestamp never changes TSF or the fractional
\* timestamp, set_fractional_timestamp never TSI or the integer timestamp.
C8_MismatchLeavesState ==
    [][/\ last'.op = "set_integer_timestamp" =>
              /\ fractional_timestamp' = fractional_timestamp
              /\ tsf(hword_1') = tsf(hword_1)
              /\ Disagree(last'.arg[1], last'.arg[2], TsiNull) =>
                     /\ last'.res = "TimestampModeMismatch"
                     /\ integer_timestamp' = integer_timestamp
                     /\ hword_1' = hword_1
       /\ last'.op = "set_fractional_timestamp" =>
              /\ integer_timestamp' = integer_timestamp
              /\ tsi(hword_1') = tsi(hword_1)
              /\ Disagree(last'.arg[1], last'.arg[2], TsfNull) =>
                     /\ last'.res = "TimestampModeMismatch"
                     /\ fractional_timestamp' = fractional_timestamp
                     /\ hword_1' = hword_1]_vars

\* set_integer_timestamp(None, Utc) was refused on a packet that holds both
\* timestamps
C8_Witness ==
    /\ last.op = "set_integer_timestamp"
    /\ last.arg = <<None, TsiUtc>>
    /\ last.res = "TimestampModeMismatch"
    /\ IsSome(integer_timestamp)
    /\ IsSome(fractional_timestamp)

\* C9: the stream id is Some iff the packet type of the header says a stream
\* id is included, for every constructor and any set_stream_id calls.
C9_StreamIdFollowsType == IsSome(stream_id) = stream_id_included(hword_1)

\* C10: after set_class_id(c) the class_id_included flag of the header is
\* set iff c is Some; a new packet starts with the flag clear.
C10_ClassIdFlagInStep ==
    /\ last.op = "set_class_id" =>
           (class_id_included(hword_1) = IsSome(last.arg))
    /\ last.op \in Constructors => ~class_id_included(hword_1)

\* C11: after update_packet_size the packet_size of the header is the number
\* of 32-bit words the packet holds and serialization emits.
C11_PacketSizeIsWords ==
    last.op = "update_packet_size" => packet_size = Len(Serialize(Pkt))

\* CIF n of payload p is coherent: the indicator word, its enable bit in
\* CIF0, the fields structure and a field with a value are there together,
\* and the bits set in the word are those of the fields with a value
CifCoherent(p, n) ==
    LET present == IsSome(p.cif[n])
        names == FieldNames(CifFieldsDecl(n))
    IN  /\ cif_enabled(p.cif0, n) = present
        /\ IsSome(p.cif_fields[n]) = present
        /\ present =>
               /\ \E x \in names : IsSome(p.cif_fields[n][1].val[x])
               /\ \A b \in AllWordBits :
                      WordBitIsSet(p.cif[n][1], b)
                      = (\E x \in names : /\ CifBits(n)[x] = b
                                           /\ IsSome(p.cif_fields[n][1].val[x]))

\* set_<field>(None) on field x of CIF n while another field of CIF n has a
\* value: the word stays, without the bit of x, and the other fields stay
ClearKeepsOthers(p, q, n, x) ==
    (/\ IsSome(p.cif_fields[n])
     /\ \E y \in FieldNames(CifFieldsDecl(n)) \ {x} :
            IsSome(p.cif_fields[n][1].val[y]))
    => /\ q.cif[n] = Some(unset_cif_field(n, p.cif[n][1], x))
       /\ q.cif0 = p.cif0
       /\ IsSome(q.cif_fields[n])
       /\ \A y \in FieldNames(CifFieldsDecl(n)) \ {x} :
              q.cif_fields[n][1].val[y] = p.cif_fields[n][1].val[y]

\* C13: under the set_<field>() calls of CIF1, CIF2 and CIF3, bit b of CIF n
\* is set iff field b is Some, and the CIF n word, its enable bit in CIF0,
\* its fields structure and a field that is Some are all there or all not;
\* clearing a field that is not the last one keeps the word and the others.
C13_CifFieldCoherence ==
    /\ [](\A n \in 1 .. 3 : CifCoherent(payload, n))
    /\ [][(last'.op = "set_field" /\ last'.arg[1] \in 1 .. 3
                                  /\ IsNone(last'.arg[3]))
          => ClearKeepsOthers(payload, payload', last'.arg[1], last'.arg[2])]_vars

\* a field of CIF1 was cleared and the other field of CIF1 still has a value
C13_Witness ==
    /\ last.op = "set_field"
    /\ last.arg = <<1, "polarization", None>>
    /\ IsSome(payload.cif[1])
    /\ IsSome(payload.cif_fields[1][1].val["index_list"])

\* C15: set_<field>() of a CIF0 field sets (Some) or clears (None) the bit of
\* that field and no other bit of CIF0, stores the value and leaves every
\* other field as it was; from an empty CIF0, rf_ref_freq gives 0x0800_0000
\* and then bandwidth gives 0x2800_0000.
C15_Cif0SetterFrame ==
    [][(last'.op = "set_field" /\ last'.arg[1] = 0)
       => LET x == last'.arg[2]
              v == last'.arg[3]
          IN  /\ \A b \in AllWordBits :
                     WordBitIsSet(payload'.cif0, b)
                     = IF b = Cif0Bits[x] THEN IsSome(v)
                       ELSE WordBitIsSet(payload.cif0, b)
              /\ payload'.cif0_fields.val[x] = v
              /\ \A y \in Cif0Args \ {x} :
                     payload'.cif0_fields.val[y] = payload.cif0_fields.val[y]
              /\ payload'.cif = payload.cif
              /\ payload'.cif_fields = payload.cif_fields
              /\ (payload.cif0 = ZeroWord /\ x = "rf_ref_freq" /\ IsSome(v))
                 => payload'.cif0 = Word(2048, 0)
              /\ (payload.cif0 = Word(2048, 0) /\ x = "bandwidth" /\ IsSome(v))
                 => payload'.cif0 = Word(10240, 0)
              /\ (~cif_field(0, payload.cif0, x) /\ IsNone(v))
                 => payload'.cif0 = payload.cif0]_vars

\* rf_ref_freq, then bandwidth were set on an empty CIF0, then bandwidth was
\* cleared again
C15_Witness ==
    /\ last.op = "set_field"
    /\ last.arg = <<0, "bandwidth", None>>
    /\ payload.cif0 = Word(2048, 0)
    /\ calls = 3

\* a declaration lists fields the indicator word has a bit for, each under a
\* bit below the bits of the fields declared before it
DescendingBits(decl, bits) ==
    /\ \A i \in 1 .. Len(decl) : decl[i][1] \in DOMAIN bits
    /\ \A i, j \in 1 .. Len(decl) :
           i < j => bits[decl[i][1]] > bits[decl[j][1]]

\* the values and attributes of the fields of CIF n whose bit is b or below,
\* from bit b down to bit 0
RECURSIVE WordsByBit(_, _, _)
WordsByBit(n, f, b) ==
    IF b < 0 THEN <<>>
    ELSE (IF \E x \in DOMAIN f.val : CifBits(n)[x] = b
          THEN LET x == CHOOSE x \in DOMAIN f.val : CifBits(n)[x] = b
               IN  OptWords(f.val[x]) \o VecWords(f.attr[x])
          ELSE <<>>)
         \o WordsByBit(n, f, b - 1)

\* no indicator declared with todo_cif_field! is set in payload p
NoTodoBit(p) ==
    \A n \in 1 .. 3 : \A x \in CifTodo(n) :
        IsSome(p.cif[n]) => ~cif_field(n, p.cif[n][1], x)

\* C18: for CIF1, CIF2 and CIF3 the declaration order of the data fields
\* and of the ACK fields is strictly descending in the bit the indicator
\* word gives the field of the same name; the fields are written in that
\* order, and each is read back under the bit of its own name.
C18_BitOrdering ==
    /\ \A n \in 1 .. 3 :
           /\ DescendingBits(CifFieldsDecl(n), CifBits(n))
           /\ DescendingBits(CifAckFieldsDecl(n), CifBits(n))
    /\ \A n \in 1 .. 3 :
           IsSome(payload.cif_fields[n])
           => FieldsWords(n, payload.cif_fields[n][1])
              = WordsByBit(n, payload.cif_fields[n][1], 31)
    /\ NoTodoBit(payload)
       => RoundTrips(Pkt)

\* two fields of CIF2 have a value, and a field of another CIF has one
C18_Witness ==
    /\ IsSome(payload.cif_fields[2])
    /\ IsSome(payload.cif_fields[2][1].val["bind"])
    /\ IsSome(payload.cif_fields[2][1].val["track_id"])
    /\ IsSome(payload.cif_fields[1])

\* C12: the options derived from CIF7: without a CIF7 word the current
\* value is read and there is no replica; with one, the current value is
\* read iff its current bit is set and the replicas are the bits set, less
\* one if current is among them.
C12_Cif7Opts ==
    payload.kind \in {"Context", "Command"}
    => LET o == Cif7OptsFrom(payload.cif7)
       IN  IF IsNone(payload.cif7)
           THEN o.current_val /\ o.num_extra_attrs = 0
           ELSE /\ o.current_val = cif7_current(payload.cif7[1])
                /\ o.num_extra_attrs
                   = num_set(payload.cif7[1])
                     - (IF cif7_current(payload.cif7[1]) THEN 1 ELSE 0)

\* C14: under the field setters, set_<field>_attributes() among them, the
\* CIF7 word is there iff CIF0 has field attributes enabled, and a bit of
\* an indicator word is set only while its field has a value or an
\* attribute.
C14_AttributeCoherence ==
    payload.kind \in {"Context", "Command"}
    => /\ IsSome(payload.cif7) = field_attributes_enabled(payload.cif0)
       /\ \A x \in FieldNames(Cif0FieldsDecl) :
              cif_field(0, payload.cif0, x)
              => \/ IsSome(payload.cif0_fields.val[x])
                 \/ payload.cif0_fields.attr[x] # <<>>
       /\ \A n \in 1 .. 3 : \A x \in FieldNames(CifFieldsDecl(n)) :
              (IsSome(payload.cif[n]) /\ cif_field(n, payload.cif[n][1], x))
              => /\ IsSome(payload.cif_fields[n])
                 /\ \/ IsSome(payload.cif_fields[n][1].val[x])
                    \/ payload.cif_fields[n][1].attr[x] # <<>>

\* C19: a parse of a payload whose CIF1 or CIF3 has the bit of an
\* unimplemented field set returns the error UnimplementedField.
C19_UnimplementedFieldError ==
    (/\ last.op = "from_bytes"
     /\ last.arg = <<packet_type(hword_1)>>
     /\ payload.kind \in {"Context", "Command"}
     /\ ~NoTodoBit(payload))
    => last.res = "UnimplementedField"

\* C20: a parse of bytes whose header has packet type bits 8..15 returns an
\* error, and packet_type() does not abort on a header the parse accepts.
C20_ReservedTypeRejected ==
    /\ (last.op = "from_bytes" /\ last.arg[1] \in 8 .. 15) => last.res = "Err"
    /\ (last.op = "from_bytes" /\ last.res = "Ok")
       => ~packet_type_panics(hword_1)

\* the fields of CIF n a level of an ACK reports: those with a response in
\* the level's container
AckReported(a, level, n) ==
    IF IsSome(a[ack_if_fields(level)][n])
    THEN {x \in DOMAIN a[ack_if_fields(level)][n][1].val :
              IsSome(a[ack_if_fields(level)][n][1].val[x])}
    ELSE {}

\* C16: after set_<field>(level, Some(r)) for a field of CIF1, CIF2 or CIF3
\* on an ACK, the indicator word of the level (WIF_N / EIF_N) is present with
\* the field's bit set, the level's CIF0-shaped word (WIF0 / EIF0) is present
\* with its cifN-enabled bit set, and the getter returns (level, r).
C16_AckCifNCoherence ==
    (/\ last.op = "set_ack_field"
     /\ last.arg[1] \in 1 .. 3
     /\ IsSome(last.arg[4]))
    => /\ IsSome(payload[ack_if(last.arg[3])][last.arg[1]])
       /\ cif_field(last.arg[1], payload[ack_if(last.arg[3])][last.arg[1]][1],
                    last.arg[2])
       /\ IsSome(payload[ack_if(last.arg[3])][0])
       /\ cif_enabled(payload[ack_if(last.arg[3])][0][1], last.arg[1])
       /\ ack_field(payload, last.arg[1], last.arg[2])
              = Some(<<last.arg[3], last.arg[4][1]>>)

\* the other level
OtherLevel(level) == IF level = "Warning" THEN "Error" ELSE "Warning"

\* C17: the warning and error sides of an ACK are independent. On a fresh
\* ACK, set_<field>(Error, Some(r)) for a CIF0 field makes EIF0 present with
\* exactly that field's bit and r stored, and leaves every warning word and
\* container absent; a set_<field>() call at one level never changes a word
\* or a container of the other level; and set_<field>(level, None) on the
\* only field the level reports removes the field's indicator word and
\* container of that level.
C17_AckLevelsIndependent ==
    /\ []((/\ last.op = "set_ack_field" /\ calls = 1
           /\ last.arg[1] = 0 /\ last.arg[3] = "Error"
           /\ IsSome(last.arg[4]))
          => /\ payload.eif[0] = Some(set_cif_field(0, ZeroWord, last.arg[2]))
             /\ AckReported(payload, "Error", 0) = {last.arg[2]}
             /\ payload.eif_fields[0][1].val[last.arg[2]] = last.arg[4]
             /\ \A n \in 0 .. 3 : /\ payload.wif[n] = None
                                   /\ payload.wif_fields[n] = None)
    /\ [][last'.op = "set_ack_field"
          => /\ payload'[ack_if(OtherLevel(last'.arg[3]))]
                  = payload[ack_if(OtherLevel(last'.arg[3]))]
             /\ payload'[ack_if_fields(OtherLevel(last'.arg[3]))]
                  = payload[ack_if_fields(OtherLevel(last'.arg[3]))]
             /\ (/\ IsNone(last'.arg[4])
                 /\ \A n \in 0 .. 3 :
                       AckReported(payload, last'.arg[3], n)
                           = IF n = last'.arg[1] THEN {last'.arg[2]} ELSE {})
                => /\ payload'[ack_if(last'.arg[3])][last'.arg[1]] = None
                   /\ payload'[ack_if_fields(last'.arg[3])][last'.arg[1]]
                          = None]_vars

\* an error response has been withdrawn from the only field the error side
\* reported, while the warning side reports a field
C17_Witness ==
    /\ last.op = "set_ack_field"
    /\ last.arg[3] = "Error" /\ IsNone(last.arg[4])
    /\ payload.kind = "Ack"
    /\ \A n \in 0 .. 3 : payload.eif[n] = None /\ payload.eif_fields[n] = None
    /\ \E n \in 0 .. 3 : AckReported(payload, "Warning", n) # {}
    /\ calls = 3

\* C21: the payload predicates classify the packet types as documented:
\* has_signal_data_payload() is true exactly for the four data types,
\* has_context_payload() exactly for Context and ExtensionContext,
\* has_command_payload() exactly for Command and ExtensionCommand, so exactly
\* one of the three is true of every packet type.
C21_PayloadPredicates ==
    last.op = "has_payload"
    => /\ last.res[1] = (last.arg[1] \in {SignalData, SignalDataWithoutStreamId,
                             ExtensionData, ExtensionDataWithoutStreamId})
       /\ last.res[2] = (last.arg[1] \in {Context, ExtensionContext})
       /\ last.res[3] = (last.arg[1] \in {Command, ExtensionCommand})
       /\ Cardinality({k \in 1 .. 3 : last.res[k]}) = 1

\* the family of the header's packet type
HeaderFamily(h) ==
    IF has_signal_family(h) THEN "SignalData"
    ELSE IF has_context_family(h) THEN "Context" ELSE "Command"

\* C28: after set_indicators(i) with an Indicators value of the header's
\* packet family, indicators() returns i, also where i clears a bit that was
\* set, and the packet type, class id flag, TSI, TSF, packet count and
\* packet size are unchanged.
C28_SetIndicatorsWrites ==
    /\ []((/\ last.op = "set_indicators"
           /\ last.arg[1].family = HeaderFamily(hword_1))
          => indicators(hword_1) = last.arg[1])
    /\ [][last'.op = "set_indicators"
          => /\ packet_type(hword_1') = packet_type(hword_1)
             /\ class_id_included(hword_1') = class_id_included(hword_1)
             /\ GetBits16(hword_1', 0, 8) = GetBits16(hword_1, 0, 8)
             /\ packet_size' = packet_size]_vars

\* C29: payload_size_words() is the packet size less the header word and
\* the words of the included stream id, class id, timestamps and trailer;
\* a header whose packet size is smaller than those words is reported as an
\* error, never a panic, a wrapped or a negative size.
C29_PayloadSizeNotBelowZero ==
    last.op = "payload_size_words"
    => IF packet_size >= prologue_words(hword_1)
       THEN last.res = <<"Ok", packet_size - prologue_words(hword_1)>>
       ELSE last.res[1] = "Err"

\* C22: from any Gain, set_stage_1_gain_db(x) makes the low 16 bits the
\* encoding of x, which stage_1_gain_db() returns, and leaves the high 16
\* bits; set_stage_2_gain_db(y) makes the high 16 bits the encoding of y and
\* leaves the low 16 bits.
C22_GainSettersStore ==
    [][payload'.kind = "Gain"
       => /\ last'.op = "set_stage_1"
             => /\ payload'.word[2] = fixed_to_bits(last'.arg[1])
                /\ stage_1_db(payload'.word) = last'.arg[1]
                /\ payload'.word[1] = payload.word[1]
          /\ last'.op = "set_stage_2"
             => /\ payload'.word[1] = fixed_to_bits(last'.arg[1])
                /\ stage_2_db(payload'.word) = last'.arg[1]
                /\ payload'.word[2] = payload.word[2]]_vars

\* C23: Threshold and Gain::new pack two independent signed halves: after
\* new(a, b) the stage-1 getter returns a and the stage-2 getter b, for
\* negative values too; and a Threshold stage setter stores its value and
\* keeps the other stage, so the two setters give (a, b) in either order.
C23_StagesIndependent ==
    /\ [](last.op = "new"
          => /\ stage_1_db(payload.word) = last.arg[1]
             /\ stage_2_db(payload.word) = last.arg[2])
    /\ [][payload'.kind = "Threshold"
          => /\ last'.op = "set_stage_1"
                => /\ stage_1_db(payload'.word) = last'.arg[1]
                   /\ stage_2_db(payload'.word) = stage_2_db(payload.word)
             /\ last'.op = "set_stage_2"
                => /\ stage_2_db(payload'.word) = last'.arg[1]
                   /\ stage_1_db(payload'.word) = stage_1_db(payload.word)]_vars

\* C24: the three parts of the spectrum-type word are independent: from any
\* Spectrum, set_window_time_delta_interpretation(i) with i not Reserved
\* makes window_time_delta_interpretation() return i and leaves
\* spectrum_type() and averaging_type(); set_spectrum_type() changes only
\* the low 8 bits and set_averaging_type() only the next 8 bits.
C24_SpectrumTypeWordParts ==
    [][/\ (/\ last'.op = "set_window_time_delta_interpretation"
           /\ last'.arg[1] # <<"Reserved">>)
          => /\ last'.res = "Ok"
             /\ window_time_delta_interpretation(payload') = last'.arg[1]
             /\ spectrum_type(payload') = spectrum_type(payload)
             /\ averaging_type(payload') = averaging_type(payload)
       /\ last'.op = "set_spectrum_type"
          => /\ payload'.spectrum_type[1] = payload.spectrum_type[1]
             /\ GetBits16(payload'.spectrum_type[2], 8, 8)
                    = GetBits16(payload.spectrum_type[2], 8, 8)
       /\ last'.op = "set_averaging_type"
          => /\ payload'.spectrum_type[1] = payload.spectrum_type[1]
             /\ GetBits16(payload'.spectrum_type[2], 0, 8)
                    = GetBits16(payload.spectrum_type[2], 0, 8)]_vars

\* C25: for every WindowType w but Reserved, Other(v) with any v included,
\* window_type() returns w after set_window_type(w);
\* set_window_type(Reserved) returns ReservedField and leaves the value.
C25_WindowTypeSymmetric ==
    /\ []((last.op = "set_window_type" /\ last.arg[1] # <<"Reserved">>)
          => /\ last.res = "Ok"
             /\ window_type(payload) = last.arg[1])
    /\ [][(last'.op = "set_window_type" /\ last'.arg[1] = <<"Reserved">>)
          => /\ last'.res = "ReservedField"
             /\ payload' = payload]_vars

\* C26: set_oui(v) uses the low 24 bits of v alone: afterwards oui() is
\* v mod 2^24, and the pad bit count and the three reserved bits are what
\* they were.
C26_SetOuiLow24Bits ==
    [][last'.op = "set_oui"
       => /\ oui(payload') = Word(last'.arg[1][1] % 256, last'.arg[1][2])
          /\ pad_bit_count(payload') = pad_bit_count(payload)
          /\ GetBits16(payload'.word_1[1], 8, 3)
                 = GetBits16(payload.word_1[1], 8, 3)]_vars

\* C27: set_signal_payload fails without side effects. On a context or a
\* command packet it returns SignalDataOnly, on a signal data packet with
\* a slice whose length is not a multiple of 4 it returns
\* PayloadUneven32BitWords, and in both cases the stored payload and the
\* packet size of the header are what they were. On success the payload is
\* the words of the slice and the header size is the size of the packet:
\* 4 for a signal data packet with a stream id and 8 payload bytes.
C27_SignalPayloadAtomic ==
    [][last'.op = "set_signal_payload"
       => /\ payload.kind # "SignalData" => last'.res = "SignalDataOnly"
          /\ (payload.kind = "SignalData" /\ Len(last'.arg[1]) % 4 # 0)
                 => last'.res = "PayloadUneven32BitWords"
          /\ (payload.kind = "SignalData" /\ Len(last'.arg[1]) % 4 = 0)
                 => last'.res = "Ok"
          /\ last'.res # "Ok"
                 => payload' = payload /\ packet_size' = packet_size
          /\ last'.res = "Ok"
                 => /\ payload'.data = BytesToWords(last'.arg[1])
                    /\ packet_size'
                           = prologue_words(hword_1)
                             + Len(last'.arg[1]) \div 4
                    /\ (/\ stream_id_included(hword_1)
                        /\ ~class_id_included(hword_1)
                        /\ tsi(hword_1) = TsiNull
                        /\ tsf(hword_1) = TsfNull
                        /\ ~trailer_included(hword_1)
                        /\ Len(last'.arg[1]) = 8)
                           => packet_size' = 4]_vars

\* a slice of 7 bytes was refused by a signal data packet that holds the
\* two words and the size 4 of an earlier call with 8 bytes
C27_Witness ==
    /\ last.op = "set_signal_payload"
    /\ last.res = "PayloadUneven32BitWords"
    /\ Len(last.arg[1]) = 7
    /\ payload.kind = "SignalData"
    /\ Len(payload.data) = 2
    /\ stream_id_included(hword_1)
    /\ packet_size = 4

\* C30: the example controllee changes the device state on success alone.
\* When set_bandwidth or set_freq returns Err the stored bandwidth_hz /
\* tune_freq_hz is what it was before the call, and when it returns Ok the
\* stored value is the argument; after process_command a field the ACK
\* reports with an error was not applied to the Sdr.
C30_SdrChangesOnSuccessOnly ==
    [][/\ last'.op = "set_bandwidth"
          => /\ payload'.tune_freq_hz = payload.tune_freq_hz
             /\ payload'.bandwidth_hz
                    = IF IsSome(last'.res) THEN payload.bandwidth_hz
                      ELSE last'.arg[1]
       /\ last'.op = "set_freq"
          => /\ payload'.bandwidth_hz = payload.bandwidth_hz
             /\ payload'.tune_freq_hz
                    = IF IsSome(last'.res) THEN payload.tune_freq_hz
                      ELSE last'.arg[1]
       /\ (last'.op = "process_command" /\ IsSome(last'.res)
             /\ last'.res[1].kind \in {"ExecAck", "ValidationAck"})
          => /\ IsSome(ack_field(last'.res[1].ack, 0, "bandwidth"))
                 => payload'.bandwidth_hz = payload.bandwidth_hz
             /\ IsSome(ack_field(last'.res[1].ack, 0, "rf_ref_freq"))
                 => payload'.tune_freq_hz = payload.tune_freq_hz]_vars

====
